---- MODULE Spec2Model ----
(***************************************************************************)
(* The analytical pipeline of src/index.tsx (detectStructure, detectFVG,   *)
(* detectOrderBlocks, detectEntries, performBacktest) and the component    *)
(* around it (fetchData, dailyStats, paper trading).  Sequences are        *)
(* 1-based here, the code's arrays 0-based: At(d, i) is the code's d[i].   *)
(* Prices are integers; the stops and targets of detectEntries are kept    *)
(* exactly, in units of 1/PriceScale, except in SpecStops, which rounds    *)
(* every operation as floating point does.                                 *)
(***************************************************************************)
EXTENDS Integers, Sequences, FiniteSets, TLC

VARIABLES
    data,         \* CandleData[] handed to the detectors
    swingLength,  \* config.swingLength
    pc,           \* position of the run
    points,       \* detectStructure: points
    fvgs,         \* detectFVG: fvgs (working list)
    fvgResult,    \* detectFVG: returned list
    obs,          \* detectOrderBlocks: obs (working list)
    obI,          \* detectOrderBlocks: index i of the lifecycle loop
    obK,          \* detectOrderBlocks: index k of the inner scan
    obResult,     \* detectOrderBlocks: returned list
    timeframe,    \* the timeframe of the run
    signals,      \* detectEntries: signals
    lastSignalTime, \* detectEntries: lastSignalTime
    stats,        \* performBacktest: stats
    results,      \* performBacktest: results
    dailyStats,   \* App: dailyStats
    htfObs,       \* App: htfObs
    htfFvgs,      \* App: htfFvgs
    alert,        \* App: the notifications raised by setAlert, latest last
    runs,         \* App: the calls of fetchData, in the order they started
    balance,      \* App: balance
    position,     \* App: position
    tradeHistory  \* App: tradeHistory

\* the state of detectEntries and performBacktest
entryVars == <<timeframe, signals, lastSignalTime, stats, results>>

\* the state of the component around the pipeline
appVars == <<dailyStats, htfObs, htfFvgs, alert, runs, balance, position, tradeHistory>>

vars == <<data, swingLength, pc, points, fvgs, fvgResult, obs, obI, obK, obResult, entryVars,
          appVars>>

(***************************************************************************)
(* Bounds of the model.                                                    *)
(***************************************************************************)
\* longest general series handed to detectStructure
MaxBarsS == 5
\* largest lookback width
MaxSwing == 2
\* seconds between two bars (a 1m series)
BarInterval == 60
\* price levels of the general structure series
StructPrices == 1..3
\* rise or fall between neighbours of a single-peak series
PeakSteps == {1, 2}
\* longest series handed to detectFVG
MaxBarsF == 4
\* price levels of the gap series
GapPrices == 1..4
\* longest unpadded series handed to detectOrderBlocks
MaxBarsO == 7
\* price levels of the opens and closes of the zone series
ZonePrices == 2..5
\* wick above the body and below it, one size for a whole series
Wicks == {0, 1}
\* most blocks of a long zone series
MaxBlocks == 12
\* longest zigzag series handed to detectStructure
MaxBarsZ == 7
\* highs of the bars of a zigzag series
ZigPrices == 2..5
\* most bars of a series after the first index detectEntries looks at
MaxTail == 4
\* longest short series handed to the pipeline
MaxBarsP == 6
\* the level a long series rests on
PadLevel == 1998

(***************************************************************************)
(* Bars.                                                                   *)
(***************************************************************************)
Max2(a, b) == IF a >= b THEN a ELSE b

Min2(a, b) == IF a <= b THEN a ELSE b

Abs(x) == IF x < 0 THEN -x ELSE x

\* the code's d[i], i counted from 0
At(d, i) == d[i + 1]

\* timestamp of the bar at index i: strictly increasing, unique
TimeOf(i) == i * BarInterval

CandleData(i, o, h, l, c) == [time |-> TimeOf(i), open |-> o, high |-> h, low |-> l, close |-> c]

\* Loops over a whole series are written over a range of indices lo..hi-1
\* that is split in halves, the left half first: the order of the loop with a
\* depth of evaluation of log2 of the length.
Mid(lo, hi) == (lo + hi) \div 2

\* the first index in lo..hi-1 whose bar has time t; -1 when there is none
RECURSIVE findIndexIn(_, _, _, _)
findIndexIn(d, t, lo, hi) ==
    IF lo >= hi THEN -1
    ELSE IF hi - lo = 1 THEN (IF At(d, lo).time = t THEN lo ELSE -1)
    ELSE LET left == findIndexIn(d, t, lo, Mid(lo, hi))
         IN  IF left # -1 THEN left ELSE findIndexIn(d, t, Mid(lo, hi), hi)

\* data.findIndex(d => d.time === t)
findIndex(d, t) == findIndexIn(d, t, 0, Len(d))

(***************************************************************************)
(* detectStructure                                                         *)
(***************************************************************************)
NoPivot == [index |-> -1, price |-> 0]

IsPivotHigh(d, i, w) ==
    \A j \in 1..w : ~(At(d, i).high <= At(d, i - j).high \/ At(d, i).high <= At(d, i + j).high)

IsPivotLow(d, i, w) ==
    \A j \in 1..w : ~(At(d, i).low >= At(d, i - j).low \/ At(d, i).low >= At(d, i + j).low)

\* the first loop, over the indices lo..hi-1
RECURSIVE pivotHighsIn(_, _, _, _)
pivotHighsIn(d, w, lo, hi) ==
    IF lo >= hi THEN <<>>
    ELSE IF hi - lo = 1
    THEN (IF IsPivotHigh(d, lo, w) THEN <<[index |-> lo, price |-> At(d, lo).high]>> ELSE <<>>)
    ELSE pivotHighsIn(d, w, lo, Mid(lo, hi)) \o pivotHighsIn(d, w, Mid(lo, hi), hi)

\* for (let i = swingLength; i < data.length - swingLength; i++)
pivotHighs(d, w) == pivotHighsIn(d, w, w, Len(d) - w)

RECURSIVE pivotLowsIn(_, _, _, _)
pivotLowsIn(d, w, lo, hi) ==
    IF lo >= hi THEN <<>>
    ELSE IF hi - lo = 1
    THEN (IF IsPivotLow(d, lo, w) THEN <<[index |-> lo, price |-> At(d, lo).low]>> ELSE <<>>)
    ELSE pivotLowsIn(d, w, lo, Mid(lo, hi)) \o pivotLowsIn(d, w, Mid(lo, hi), hi)

pivotLows(d, w) == pivotLowsIn(d, w, w, Len(d) - w)

\* [...highs as 'High', ...lows as 'Low'].sort by index: the sort is stable, so
\* a bar that is both comes out High first
RECURSIVE allPivotsIn(_, _, _, _)
allPivotsIn(d, w, lo, hi) ==
    IF lo >= hi THEN <<>>
    ELSE IF hi - lo = 1
    THEN (IF IsPivotHigh(d, lo, w)
             THEN <<[index |-> lo, price |-> At(d, lo).high, type |-> "High"]>> ELSE <<>>)
         \o (IF IsPivotLow(d, lo, w)
             THEN <<[index |-> lo, price |-> At(d, lo).low, type |-> "Low"]>> ELSE <<>>)
    ELSE allPivotsIn(d, w, lo, Mid(lo, hi)) \o allPivotsIn(d, w, Mid(lo, hi), hi)

allPivots(d, w) == allPivotsIn(d, w, w, Len(d) - w)

StructurePoint(t, p, ty, dir) == [time |-> t, price |-> p, type |-> ty, direction |-> dir]

\* the tracker a run starts from: pivotHighs[0] / pivotLows[0], undefined when empty
FirstOrNone(s) == IF Len(s) > 0 THEN [index |-> s[1].index, price |-> s[1].price] ELSE NoPivot

SeedNone(s) == NoPivot

InitialTracker(s) == FirstOrNone(s)

\* the loop with trackers that stay on the first pivot of each kind
RECURSIVE classifyFirst(_, _, _, _, _)
classifyFirst(d, ps, n, lastHigh, lastLow) ==
    IF n > Len(ps) THEN <<>>
    ELSE LET p == ps[n]
             candle == At(d, p.index)
             me == [index |-> p.index, price |-> p.price]
         IN  IF p.type = "High"
             THEN IF lastHigh = NoPivot
                  THEN classifyFirst(d, ps, n + 1, me, lastLow)
                  ELSE <<StructurePoint(candle.time, p.price,
                                        IF p.price > lastHigh.price THEN "HH" ELSE "LH",
                                        "Bearish")>>
                       \o classifyFirst(d, ps, n + 1, lastHigh, lastLow)
             ELSE IF lastLow = NoPivot
                  THEN classifyFirst(d, ps, n + 1, lastHigh, me)
                  ELSE <<StructurePoint(candle.time, p.price,
                                        IF p.price < lastLow.price THEN "LL" ELSE "HL",
                                        "Bullish")>>
                       \o classifyFirst(d, ps, n + 1, lastHigh, lastLow)

\* the loop over allPivots, from position n on, with the two trackers
RECURSIVE classify(_, _, _, _, _)
classify(d, ps, n, lastHigh, lastLow) ==
    IF n > Len(ps) THEN <<>>
    ELSE LET p == ps[n]
             candle == At(d, p.index)
             me == [index |-> p.index, price |-> p.price]
         IN  IF p.type = "High"
             THEN IF lastHigh = NoPivot
                  THEN classify(d, ps, n + 1, me, lastLow)
                  ELSE <<StructurePoint(candle.time, p.price,
                                        IF p.price > lastHigh.price THEN "HH" ELSE "LH",
                                        "Bearish")>>
                       \o classify(d, ps, n + 1, me, lastLow)
             ELSE IF lastLow = NoPivot
                  THEN classify(d, ps, n + 1, lastHigh, me)
                  ELSE <<StructurePoint(candle.time, p.price,
                                        IF p.price < lastLow.price THEN "LL" ELSE "HL",
                                        "Bullish")>>
                       \o classify(d, ps, n + 1, lastHigh, me)

detectStructure(d, w) ==
    classify(d, allPivots(d, w), 1,
             InitialTracker(pivotHighs(d, w)), InitialTracker(pivotLows(d, w)))

(***************************************************************************)
(* Input series of the structure detector.                                 *)
(***************************************************************************)
\* a general series: every bar has low <= high, open and close on the low
HLPairs == {p \in StructPrices \X StructPrices : p[1] <= p[2]}

BarsOfHL(f, n) == [i \in 1..n |-> CandleData(i - 1, f[i][1], f[i][2], f[i][1], f[i][1])]

\* a single-peak series of length 4w+1: peak at index p (0 < p < 4w), the value
\* at index i is the peak's less the steps between i and p
RECURSIVE SumSteps(_, _, _)
SumSteps(st, a, b) == IF a > b THEN 0 ELSE st[a] + SumSteps(st, a + 1, b)

PeakTop(n) == 2 * n + 2

\* st[j] is the distance between the highs at indices j-1 and j
PeakHigh(st, p, i) ==
    IF i <= p THEN -SumSteps(st, i + 1, p) ELSE -SumSteps(st, p + 1, i)

PeakBars(n, p, st) ==
    [i \in 1..n |->
        LET h == PeakTop(n) + PeakHigh(st, p, i - 1)
        IN  CandleData(i - 1, h - 1, h, h - 1, h - 1)]

\* a zigzag series: the bar at index i - 1 has high h[i] and its low one below
ZigBars(h, n) == [i \in 1..n |-> CandleData(i - 1, h[i] - 1, h[i], h[i] - 1, h[i] - 1)]

\* highs and lows rise strictly to index p and fall strictly after it
IsSinglePeak(d, p) ==
    /\ \A i \in 0..(Len(d) - 2) :
          IF i < p
          THEN At(d, i).high < At(d, i + 1).high /\ At(d, i).low < At(d, i + 1).low
          ELSE At(d, i).high > At(d, i + 1).high /\ At(d, i).low > At(d, i + 1).low
    /\ 0 < p /\ p < Len(d) - 1

(***************************************************************************)
(* The structure run.                                                      *)
(***************************************************************************)
\* useState<BacktestStats | null>(null)
NoStats == [absent |-> TRUE]

\* a position that is not open, an alert that is not shown (lines 789, 794)
null == [null |-> TRUE]

\* useState(100000) of balance (line 788)
StartBalance == 100000

\* the component as constructed (lines 766-794), nothing fetched yet
AppIdle ==
    /\ dailyStats = <<>> /\ htfObs = <<>> /\ htfFvgs = <<>>
    /\ alert = <<>> /\ runs = <<>>
    /\ balance = StartBalance /\ position = null /\ tradeHistory = <<>>

Idle ==
    /\ points = <<>> /\ fvgs = <<>> /\ fvgResult = <<>>
    /\ obs = <<>> /\ obI = 0 /\ obK = 0 /\ obResult = <<>>
    /\ timeframe = "1m" /\ signals = <<>> /\ lastSignalTime = 0
    /\ stats = NoStats /\ results = <<>>
    /\ AppIdle

InitStruct ==
    /\ pc = "start"
    /\ swingLength \in 1..MaxSwing
    /\ \/ \E n \in 0..MaxBarsS : \E f \in [1..n -> HLPairs] : data = BarsOfHL(f, n)
       \/ \E p \in 1..(4 * swingLength - 1) : \E st \in [1..(4 * swingLength) -> PeakSteps] :
             data = PeakBars(4 * swingLength + 1, p, st)
       \/ /\ swingLength = 1
          /\ \E n \in (MaxBarsS + 1)..MaxBarsZ : \E h \in [1..n -> ZigPrices] :
                data = ZigBars(h, n)
    /\ Idle

RunDetectStructure ==
    /\ pc = "start"
    /\ points' = detectStructure(data, swingLength)
    /\ pc' = "done"
    /\ UNCHANGED <<data, swingLength, fvgs, fvgResult, obs, obI, obK, obResult>>
    /\ UNCHANGED <<entryVars, appVars>>

NextStruct == RunDetectStructure

SpecStruct == InitStruct /\ [][NextStruct]_vars

(***************************************************************************)
(* detectFVG                                                               *)
(***************************************************************************)
\* new Date(t * 1000).getUTCHours()
getUTCHours(t) == (t \div 3600) % 24

isSilverBullet(t) == getUTCHours(t) \in {14, 9, 3}

FVG(tag, t, hi, lo, dir) ==
    [id |-> <<tag, t>>, time |-> t, priceHigh |-> hi, priceLow |-> lo,
     direction |-> dir, mitigated |-> FALSE, isSilverBullet |-> isSilverBullet(t)]

BullGapLoose(c1, c3) == c1.high <= c3.low

\* c1.high < c3.low
IsBullGap(c1, c3) == c1.high < c3.low

\* c1.low > c3.high
IsBearGap(c1, c3) == c1.low > c3.high

\* the first loop, over the indices lo..hi-1
RECURSIVE createFVGsIn(_, _, _)
createFVGsIn(d, lo, hi) ==
    IF lo >= hi THEN <<>>
    ELSE IF hi - lo = 1
    THEN LET c1 == At(d, lo - 2)
             c2 == At(d, lo - 1)
             c3 == At(d, lo)
         IN  (IF IsBullGap(c1, c3)
                 THEN <<FVG("fvg-bull", c2.time, c3.low, c1.high, "Bullish")>> ELSE <<>>)
             \o (IF IsBearGap(c1, c3)
                 THEN <<FVG("fvg-bear", c2.time, c1.low, c3.high, "Bearish")>> ELSE <<>>)
    ELSE createFVGsIn(d, lo, Mid(lo, hi)) \o createFVGsIn(d, Mid(lo, hi), hi)

\* for (let i = 2; i < data.length; i++)
createFVGs(d) == createFVGsIn(d, 2, Len(d))

futureCandlesFromStart(d, fvg) == SelectSeq(d, LAMBDA c : c.time >= fvg.time)

\* data.filter(d => d.time > fvg.time)
futureCandles(d, fvg) == SelectSeq(d, LAMBDA c : c.time > fvg.time)

\* the inner loop over futureCandles, over the positions lo..hi-1, left at the
\* first hit
RECURSIVE scanFVGIn(_, _, _, _)
scanFVGIn(fvg, future, lo, hi) ==
    IF lo >= hi THEN fvg
    ELSE IF hi - lo = 1
    THEN LET candle == future[lo]
         IN  IF fvg.direction = "Bullish" /\ candle.low < fvg.priceLow
             THEN [fvg EXCEPT !.mitigated = TRUE]
             ELSE IF fvg.direction = "Bearish" /\ candle.high > fvg.priceHigh
             THEN [fvg EXCEPT !.mitigated = TRUE]
             ELSE fvg
    ELSE LET left == scanFVGIn(fvg, future, lo, Mid(lo, hi))
         IN  IF left.mitigated THEN left ELSE scanFVGIn(fvg, future, Mid(lo, hi), hi)

\* for (const candle of futureCandles), from position n on
scanFVG(fvg, future, n) == scanFVGIn(fvg, future, n, Len(future) + 1)

\* the second loop: every gap scanned against its later bars
mitigateFVGs(d, gs) == [i \in 1..Len(gs) |-> scanFVG(gs[i], futureCandles(d, gs[i]), 1)]

\* fvgs.filter(f => !f.mitigated)
unmitigatedFVGs(gs) == SelectSeq(gs, LAMBDA f : ~f.mitigated)

detectFVG(d) == unmitigatedFVGs(mitigateFVGs(d, createFVGs(d)))

(***************************************************************************)
(* The gap run: the creation loop, the mitigation loop, the return.        *)
(***************************************************************************)
GapPairs == {p \in GapPrices \X GapPrices : p[1] <= p[2]}

InitFVG ==
    /\ pc = "start"
    /\ swingLength = 1
    /\ \E n \in 0..MaxBarsF : \E f \in [1..n -> GapPairs] : data = BarsOfHL(f, n)
    /\ Idle

FVGCreate ==
    /\ pc = "start"
    /\ fvgs' = createFVGs(data)
    /\ pc' = "created"
    /\ UNCHANGED <<data, swingLength, points, fvgResult, obs, obI, obK, obResult>>
    /\ UNCHANGED <<entryVars, appVars>>

FVGMitigate ==
    /\ pc = "created"
    /\ fvgs' = mitigateFVGs(data, fvgs)
    /\ pc' = "scanned"
    /\ UNCHANGED <<data, swingLength, points, fvgResult, obs, obI, obK, obResult>>
    /\ UNCHANGED <<entryVars, appVars>>

FVGReturn ==
    /\ pc = "scanned"
    /\ fvgResult' = unmitigatedFVGs(fvgs)
    /\ pc' = "done"
    /\ UNCHANGED <<data, swingLength, points, fvgs, obs, obI, obK, obResult>>
    /\ UNCHANGED <<entryVars, appVars>>

NextFVG == FVGCreate \/ FVGMitigate \/ FVGReturn

SpecFVG == InitFVG /\ [][NextFVG]_vars

(***************************************************************************)
(* Claims about detectFVG (checked under SpecFVG).                         *)
(***************************************************************************)
\* a bar later than the gap's anchor trades through the gap's far boundary
HitLater(g) ==
    \E j \in 0..(Len(data) - 1) :
        /\ At(data, j).time > g.time
        /\ \/ g.direction = "Bullish" /\ At(data, j).low < g.priceLow
           \/ g.direction = "Bearish" /\ At(data, j).high > g.priceHigh

\* C6: detectFVG returns exactly the gaps no later bar trades through (low
\* strictly below a Bullish gap's priceLow, high strictly above a Bearish gap's
\* priceHigh), in their order, and every returned gap has mitigated = false.
C6_ReturnsUnmitigatedGaps ==
    pc = "done" =>
        /\ fvgResult = SelectSeq(createFVGs(data), LAMBDA g : ~HitLater(g))
        /\ \A n \in 1..Len(fvgResult) : fvgResult[n].mitigated = FALSE

C6_Witness ==
    /\ pc = "done"
    /\ \E n \in 1..Len(fvgs) : fvgs[n].direction = "Bullish" /\ fvgs[n].mitigated
    /\ Len(fvgResult) > 0

\* the gaps of one direction anchored at time t
GapsAt(t, dir) == {n \in 1..Len(fvgs) : fvgs[n].time = t /\ fvgs[n].direction = dir}

\* C7: for every index i >= 2 the creation loop stores a Bullish gap iff
\* bar[i-2].high < bar[i].low, with band [bar[i-2].high, bar[i].low], and a
\* Bearish gap iff bar[i-2].low > bar[i].high, with band [bar[i].high,
\* bar[i-2].low], both anchored at bar[i-1].time; nothing else is stored, and the
\* gaps are stored in ascending index order.
C7_GapCreation ==
    pc = "created" =>
        /\ \A i \in 2..(Len(data) - 1) :
              LET c1 == At(data, i - 2)
                  c2 == At(data, i - 1)
                  c3 == At(data, i)
              IN  /\ (GapsAt(c2.time, "Bullish") # {}) <=> (c1.high < c3.low)
                  /\ (GapsAt(c2.time, "Bearish") # {}) <=> (c1.low > c3.high)
                  /\ \A n \in GapsAt(c2.time, "Bullish") :
                        fvgs[n].priceLow = c1.high /\ fvgs[n].priceHigh = c3.low
                  /\ \A n \in GapsAt(c2.time, "Bearish") :
                        fvgs[n].priceLow = c3.high /\ fvgs[n].priceHigh = c1.low
                  /\ Cardinality(GapsAt(c2.time, "Bullish")) <= 1
                  /\ Cardinality(GapsAt(c2.time, "Bearish")) <= 1
        /\ \A n \in 1..Len(fvgs) :
              /\ \E i \in 2..(Len(data) - 1) : fvgs[n].time = At(data, i - 1).time
              /\ fvgs[n].direction \in {"Bullish", "Bearish"}
              /\ fvgs[n].mitigated = FALSE
        /\ \A m, n \in 1..Len(fvgs) : m < n => fvgs[m].time < fvgs[n].time

C7_Witness ==
    /\ pc = "created"
    /\ \E m, n \in 1..Len(fvgs) :
          m < n /\ fvgs[m].direction = "Bullish" /\ fvgs[n].direction = "Bearish"

(***************************************************************************)
(* detectOrderBlocks                                                       *)
(***************************************************************************)
\* config.obThreshold, in tenths (1.2)
obThresholdTenths == 12

\* data.slice(-100)
BodyWindow == 100

\* .slice(-10)
MaxZones == 10

OrderBlock(tag, candle, dir) ==
    [id |-> <<tag, candle.time>>, time |-> candle.time, priceHigh |-> candle.high,
     priceLow |-> candle.low, direction |-> dir, mitigated |-> FALSE, subtype |-> "Standard"]

\* the last n entries of s: s.slice(-n)
sliceLast(s, n) == IF Len(s) <= n THEN s ELSE SubSeq(s, Len(s) - n + 1, Len(s))

sliceFirst(s, n) == IF Len(s) <= n THEN s ELSE SubSeq(s, 1, n)

\* the sum of |close - open| over the indices lo..hi-1
RECURSIVE SumBodiesIn(_, _, _)
SumBodiesIn(d, lo, hi) ==
    IF lo >= hi THEN 0
    ELSE IF hi - lo = 1 THEN Abs(At(d, lo).close - At(d, lo).open)
    ELSE SumBodiesIn(d, lo, Mid(lo, hi)) + SumBodiesIn(d, Mid(lo, hi), hi)

\* the reduce over the first n bars of d
SumBodies(d, n) == SumBodiesIn(d, 0, n)

allBars(d) == d

\* the bars the mean body is taken over
bodyBars(d) == sliceLast(d, BodyWindow)

\* meanBody = sum / length || 1, as the fraction meanBodyNum / meanBodyDen:
\* 0/0 (no bar) and 0 (flat bars only) are both replaced by 1
meanBodyNum(d) ==
    LET sum == SumBodies(bodyBars(d), Len(bodyBars(d)))
    IN  IF sum = 0 THEN 1 ELSE sum

meanBodyDen(d) ==
    LET sum == SumBodies(bodyBars(d), Len(bodyBars(d)))
    IN  IF sum = 0 THEN 1 ELSE Len(bodyBars(d))

\* x > IMPULSE_THRESHOLD, where IMPULSE_THRESHOLD = meanBody * thresholdMult
aboveThreshold(d, mult, x) == x * meanBodyDen(d) * 10 > meanBodyNum(d) * mult

moveUp(d, mult, nextCandle) == aboveThreshold(d, mult, nextCandle.close - nextCandle.open)

moveDown(d, mult, nextCandle) == aboveThreshold(d, mult, nextCandle.open - nextCandle.close)

\* candle.close < candle.open && moveUp && nextCandle.close > candle.high
bullCandidate(d, mult, candle, nextCandle) ==
    candle.close < candle.open /\ moveUp(d, mult, nextCandle) /\ nextCandle.close > candle.high

\* candle.close > candle.open && moveDown && nextCandle.close < candle.low
bearCandidate(d, mult, candle, nextCandle) ==
    candle.close > candle.open /\ moveDown(d, mult, nextCandle) /\ nextCandle.close < candle.low

\* the first loop, over the indices lo..hi-1
RECURSIVE createOBsIn(_, _, _, _)
createOBsIn(d, mult, lo, hi) ==
    IF lo >= hi THEN <<>>
    ELSE IF hi - lo = 1
    THEN LET candle == At(d, lo)
             nextCandle == At(d, lo + 1)
         IN  (IF bullCandidate(d, mult, candle, nextCandle)
                 THEN <<OrderBlock("ob-bull", candle, "Bullish")>> ELSE <<>>)
             \o (IF bearCandidate(d, mult, candle, nextCandle)
                 THEN <<OrderBlock("ob-bear", candle, "Bearish")>> ELSE <<>>)
    ELSE createOBsIn(d, mult, lo, Mid(lo, hi)) \o createOBsIn(d, mult, Mid(lo, hi), hi)

\* for (let i = 2; i < data.length - 3; i++)
createOBs(d, mult) == createOBsIn(d, mult, 2, Len(d) - 3)

lifecycleReflip(ob, current) ==
    IF ob.direction = "Bullish" /\ current.close < ob.priceLow
    THEN [ob EXCEPT !.subtype = "Breaker", !.direction = "Bearish"]
    ELSE IF ob.direction = "Bearish" /\ current.close > ob.priceHigh
    THEN [ob EXCEPT !.subtype = "Breaker", !.direction = "Bullish"]
    ELSE ob

lifecycleLoose(ob, current) ==
    IF ob.subtype = "Standard"
    THEN IF ob.direction = "Bullish" /\ current.close <= ob.priceLow
         THEN [ob EXCEPT !.subtype = "Breaker", !.direction = "Bearish"]
         ELSE IF ob.direction = "Bearish" /\ current.close >= ob.priceHigh
         THEN [ob EXCEPT !.subtype = "Breaker", !.direction = "Bullish"]
         ELSE ob
    ELSE IF ob.subtype = "Breaker"
    THEN IF ob.direction = "Bullish" /\ current.close < ob.priceLow
         THEN [ob EXCEPT !.mitigated = TRUE]
         ELSE IF ob.direction = "Bearish" /\ current.close > ob.priceHigh
         THEN [ob EXCEPT !.mitigated = TRUE]
         ELSE ob
    ELSE ob

lifecycleSameSide(ob, current) ==
    IF ob.subtype = "Standard"
    THEN IF ob.direction = "Bullish" /\ current.close < ob.priceLow
         THEN [ob EXCEPT !.subtype = "Breaker", !.direction = "Bearish"]
         ELSE IF ob.direction = "Bearish" /\ current.close > ob.priceHigh
         THEN [ob EXCEPT !.subtype = "Breaker", !.direction = "Bullish"]
         ELSE ob
    ELSE IF ob.subtype = "Breaker"
    THEN IF ob.direction = "Bearish" /\ current.close < ob.priceLow
         THEN [ob EXCEPT !.mitigated = TRUE]
         ELSE IF ob.direction = "Bullish" /\ current.close > ob.priceHigh
         THEN [ob EXCEPT !.mitigated = TRUE]
         ELSE ob
    ELSE ob

\* one pass of the body of the inner loop: the zone after the bar `current`
lifecycleStep(ob, current) ==
    IF ob.subtype = "Standard"
    THEN IF ob.direction = "Bullish" /\ current.close < ob.priceLow
         THEN [ob EXCEPT !.subtype = "Breaker", !.direction = "Bearish"]
         ELSE IF ob.direction = "Bearish" /\ current.close > ob.priceHigh
         THEN [ob EXCEPT !.subtype = "Breaker", !.direction = "Bullish"]
         ELSE ob
    ELSE IF ob.subtype = "Breaker"
    THEN IF ob.direction = "Bullish" /\ current.close < ob.priceLow
         THEN [ob EXCEPT !.mitigated = TRUE]
         ELSE IF ob.direction = "Bearish" /\ current.close > ob.priceHigh
         THEN [ob EXCEPT !.mitigated = TRUE]
         ELSE ob
    ELSE ob

\* the inner loop for one zone, over the indices lo..hi-1
RECURSIVE scanOBIn(_, _, _, _)
scanOBIn(ob, d, lo, hi) ==
    IF lo >= hi THEN ob
    ELSE IF hi - lo = 1 THEN lifecycleStep(ob, At(d, lo))
    ELSE LET left == scanOBIn(ob, d, lo, Mid(lo, hi))
         IN  IF left = ob THEN scanOBIn(ob, d, Mid(lo, hi), hi)
             ELSE scanOBIn(left, d, Mid(lo, hi), hi)

\* for (let k = startIndex + 1; k < data.length; k++)
scanOB(ob, d, k) == scanOBIn(ob, d, k, Len(d))

\* the second loop: a zone whose anchor bar is not found is left as it is
scanOBs(d, zs) ==
    [i \in 1..Len(zs) |->
        LET startIndex == findIndex(d, zs[i].time)
        IN  IF startIndex = -1 THEN zs[i] ELSE scanOB(zs[i], d, startIndex + 1)]

firstUnmitigatedOBs(zs) == sliceFirst(SelectSeq(zs, LAMBDA o : ~o.mitigated), MaxZones)

\* obs.filter(o => !o.mitigated).slice(-10)
returnedOBs(zs) == sliceLast(SelectSeq(zs, LAMBDA o : ~o.mitigated), MaxZones)

detectOrderBlocks(d, mult) == returnedOBs(scanOBs(d, createOBs(d, mult)))

(***************************************************************************)
(* Input series of the zone detector: every bar opens on the close of the  *)
(* bar before it (the first on its own close), with one wick size above    *)
(* and below every body.  A second family is longer than the mean body's  *)
(* window: six bars, one of them opening anywhere, followed by flat bars   *)
(* on the last close.                                                      *)
(***************************************************************************)
\* cl[i] is the close of the bar at index i - 1; the first bar opens on its close
BarsOfCloses(cl, n, wick) ==
    [i \in 1..n |->
        LET o == IF i = 1 THEN cl[1] ELSE cl[i - 1]
        IN  CandleData(i - 1, o, Max2(o, cl[i]) + wick, Min2(o, cl[i]) - wick, cl[i])]

FlatBars(from, n, price) == [i \in 1..n |-> CandleData(from + i - 1, price, price, price, price)]

Body(i, o, c) == CandleData(i, o, Max2(o, c), Min2(o, c), c)

\* six bars: two flat ones, a bar from a to c2, a bar from o3 (any open) to c3, a
\* bar from c3 to c4 and a flat one
GapHead(a, c2, o3, c3, c4) ==
    <<Body(0, a, a), Body(1, a, a), Body(2, a, c2), Body(3, o3, c3), Body(4, c3, c4),
      Body(5, c4, c4)>>

\* the shortest series with a candidate index: 2 < length - 3
MinZoneBars == 6

PadLengths == {BodyWindow - 2, BodyWindow}

(***************************************************************************)
(* The zone run: the creation loop, then the lifecycle loop one bar at a   *)
(* time (obI is the loop's i, obK its k), then the return.                 *)
(***************************************************************************)
InitOB ==
    /\ pc = "start"
    /\ swingLength = 1
    /\ \/ \E n \in 0..MaxBarsO : \E wick \in Wicks : \E cl \in [1..n -> ZonePrices] :
             data = BarsOfCloses(cl, n, wick)
       \/ \E pad \in PadLengths : \E a, c2, o3, c3, c4 \in ZonePrices :
             data = GapHead(a, c2, o3, c3, c4) \o FlatBars(MinZoneBars, pad, c4)
    /\ Idle

\* lines 232-267
OBCreate ==
    /\ pc = "start"
    /\ obs' = createOBs(data, obThresholdTenths)
    /\ obI' = 0
    /\ pc' = "loop"
    /\ UNCHANGED <<data, swingLength, points, fvgs, fvgResult, obK, obResult>>
    /\ UNCHANGED <<entryVars, appVars>>

\* lines 269-272: the next zone, its anchor bar looked up
OBEnterZone ==
    /\ pc = "loop"
    /\ obI < Len(obs)
    /\ LET startIndex == findIndex(data, obs[obI + 1].time)
       IN  IF startIndex = -1
           THEN obI' = obI + 1 /\ UNCHANGED <<pc, obK>>
           ELSE obK' = startIndex + 1 /\ pc' = "scan" /\ UNCHANGED obI
    /\ UNCHANGED <<data, swingLength, points, fvgs, fvgResult, obs, obResult>>
    /\ UNCHANGED <<entryVars, appVars>>

\* lines 274-288: one bar of the inner loop
OBScanStep ==
    /\ pc = "scan"
    /\ obK < Len(data)
    /\ obs' = [obs EXCEPT ![obI + 1] = lifecycleStep(@, At(data, obK))]
    /\ obK' = obK + 1
    /\ UNCHANGED <<data, swingLength, pc, points, fvgs, fvgResult, obI, obResult>>
    /\ UNCHANGED <<entryVars, appVars>>

\* the inner loop ends: on to the next zone
OBScanEnd ==
    /\ pc = "scan"
    /\ obK >= Len(data)
    /\ obI' = obI + 1
    /\ pc' = "loop"
    /\ UNCHANGED <<data, swingLength, points, fvgs, fvgResult, obs, obK, obResult>>
    /\ UNCHANGED <<entryVars, appVars>>

\* line 290
OBReturn ==
    /\ pc = "loop"
    /\ obI >= Len(obs)
    /\ obResult' = returnedOBs(obs)
    /\ pc' = "done"
    /\ UNCHANGED <<data, swingLength, points, fvgs, fvgResult, obs, obI, obK>>
    /\ UNCHANGED <<entryVars, appVars>>

NextOB == OBCreate \/ OBEnterZone \/ OBScanStep \/ OBScanEnd \/ OBReturn

SpecOB == InitOB /\ [][NextOB]_vars

(***************************************************************************)
(* Long zone series, built from blocks between two flat bars at each end:  *)
(* block "Z" falls by 1 and rises by 2 (the falling bar becomes a Bullish  *)
(* zone), block "C" falls by 3 (it closes below the zones just made, and   *)
(* makes the rising bar before it a Bearish zone).                         *)
(***************************************************************************)
BlockDeltas(b) == IF b = "Z" THEN <<-1, 2>> ELSE <<-3>>

RECURSIVE DeltasOf(_, _)
DeltasOf(blocks, n) == IF n = 0 THEN <<>> ELSE DeltasOf(blocks, n - 1) \o BlockDeltas(blocks[n])

\* the closes: the level before, moved by each delta in turn
RECURSIVE ClosesOf(_, _, _)
ClosesOf(deltas, n, base) ==
    IF n = 0 THEN <<>>
    ELSE LET before == ClosesOf(deltas, n - 1, base)
             last == IF n = 1 THEN base ELSE before[n - 1]
         IN  Append(before, last + deltas[n])

LongSeries(blocks, m) ==
    LET deltas == <<0, 0>> \o DeltasOf(blocks, m) \o <<0, 0>>
        n == Len(deltas)
    IN  BarsOfCloses(ClosesOf(deltas, n, 3 * m + 1), n, 0)

InitOBLong ==
    /\ pc = "start"
    /\ swingLength = 1
    /\ \E m \in (MaxZones + 1)..MaxBlocks : \E blocks \in [1..m -> {"Z", "C"}] :
          data = LongSeries(blocks, m)
    /\ Idle

\* detectOrderBlocks in one step: obs is the list the lifecycle loop leaves
RunDetectOrderBlocks ==
    /\ pc = "start"
    /\ obs' = scanOBs(data, createOBs(data, obThresholdTenths))
    /\ obI' = Len(obs')
    /\ obResult' = returnedOBs(obs')
    /\ pc' = "done"
    /\ UNCHANGED <<data, swingLength, points, fvgs, fvgResult, obK>>
    /\ UNCHANGED <<entryVars, appVars>>

NextOBLong == RunDetectOrderBlocks

SpecOBLong == InitOBLong /\ [][NextOBLong]_vars

(***************************************************************************)
(* Claims about detectOrderBlocks (checked under SpecOB).                  *)
(***************************************************************************)
\* the direction a zone was created with, which its id keeps
OriginOf(ob) == IF ob.id[1] = "ob-bull" THEN "Bullish" ELSE "Bearish"

Reverse(dir) == IF dir = "Bullish" THEN "Bearish" ELSE "Bullish"

AnchorIndex(ob) == CHOOSE i \in 0..(Len(data) - 1) : At(data, i).time = ob.time

\* the index of the last bar the lifecycle loop has fed to the zone at position z
\* (its anchor index when it has been fed none)
SeenUpTo(z) ==
    IF z <= obI THEN Len(data) - 1
    ELSE IF pc = "scan" /\ z = obI + 1 THEN obK - 1
    ELSE AnchorIndex(obs[z])

\* the bar at index j closes beyond the bound the zone was created to hold
Violates(ob, j) ==
    IF OriginOf(ob) = "Bullish" THEN At(data, j).close < ob.priceLow
    ELSE At(data, j).close > ob.priceHigh

\* the bars fed to the zone at position z that close beyond its created bound
Violations(z) == {j \in (AnchorIndex(obs[z]) + 1)..SeenUpTo(z) : Violates(obs[z], j)}

SetMin(S) == CHOOSE x \in S : \A y \in S : x <= y

\* C2: a Standard Bullish zone becomes Breaker with direction Bearish at the
\* first bar after its anchor whose close is strictly below its priceLow, a
\* Standard Bearish zone Breaker/Bullish at the first close strictly above its
\* priceHigh; until then it is Standard in its created direction, and its band
\* and anchor time stay those of its anchor bar.
C2_FlipAtFirstViolation ==
    \A z \in 1..Len(obs) :
        LET ob == obs[z]
            anchor == At(data, AnchorIndex(ob))
        IN  /\ Violations(z) = {} => ob.subtype = "Standard" /\ ob.direction = OriginOf(ob)
            /\ Violations(z) # {} =>
                  ob.subtype = "Breaker" /\ ob.direction = Reverse(OriginOf(ob))
            /\ ob.priceLow = anchor.low /\ ob.priceHigh = anchor.high
            /\ ob.time = anchor.time

C2_Witness ==
    /\ pc = "scan"
    /\ obs[obI + 1].subtype = "Breaker"
    /\ obs[obI + 1].direction = "Bearish"
    /\ Violations(obI + 1) = {obK - 1}
    /\ obK - 1 > AnchorIndex(obs[obI + 1]) + 1

\* the bars after the flip that close against the zone's reversed direction
Confirmations(z) ==
    IF Violations(z) = {} THEN {}
    ELSE {j \in (SetMin(Violations(z)) + 1)..SeenUpTo(z) :
            \/ obs[z].direction = "Bullish" /\ At(data, j).close < obs[z].priceLow
            \/ obs[z].direction = "Bearish" /\ At(data, j).close > obs[z].priceHigh}

\* C3: a Breaker zone of direction Bullish is mitigated from the first later
\* bar on whose close is below its priceLow, a Breaker zone of direction
\* Bearish from the first later close above its priceHigh, and not before; a
\* zone mitigated at the end of the scan is not in the returned list.
C3_BreakerMitigation ==
    /\ \A z \in 1..Len(obs) : obs[z].mitigated <=> (Confirmations(z) # {})
    /\ pc = "done" =>
          \A z \in 1..Len(obs) :
              obs[z].mitigated => \A r \in 1..Len(obResult) : obResult[r].id # obs[z].id

C3_Witness ==
    /\ pc = "done"
    /\ \E z \in 1..Len(obs) : obs[z].mitigated /\ obs[z].direction = "Bearish"
    /\ \E z \in 1..Len(obs) : ~obs[z].mitigated
    /\ Len(obResult) > 0

\* C4: in every step of the lifecycle scan a zone stays where it is or moves
\* one stage forward: Standard to Breaker with its direction reversed (never
\* mitigated by that same bar), Breaker to mitigated with subtype and direction
\* kept; a Breaker never becomes Standard again nor changes direction again, a
\* mitigated zone stays mitigated, and only the scanned zone changes.
C4_OneWayLifecycle ==
    [][(pc = "scan" /\ obK < Len(data)) =>
        /\ Len(obs') = Len(obs)
        /\ \A z \in 1..Len(obs) : z # obI + 1 => obs'[z] = obs[z]
        /\ LET ob == obs[obI + 1]
               nx == obs'[obI + 1]
           IN  /\ ob.subtype = "Standard" =>
                     /\ ~ob.mitigated /\ ~nx.mitigated
                     /\ \/ nx = ob
                        \/ nx.subtype = "Breaker" /\ nx.direction = Reverse(ob.direction)
               /\ ob.subtype = "Breaker" =>
                     /\ nx.subtype = "Breaker" /\ nx.direction = ob.direction
                     /\ ob.mitigated => nx.mitigated
               /\ ob.subtype \in {"Standard", "Breaker"}
               /\ nx.direction = OriginOf(nx) <=> nx.subtype = "Standard"]_vars

C4_Witness ==
    /\ pc = "scan"
    /\ obK < Len(data)
    /\ obs[obI + 1].mitigated
    /\ Confirmations(obI + 1) # {}
    /\ SetMin(Confirmations(obI + 1)) > SetMin(Violations(obI + 1))

\* the mean |close - open| of the last 100 bars (all bars if fewer), as the
\* fraction WindowSum / WindowLen
WindowFirst == Max2(0, Len(data) - BodyWindow)

RECURSIVE BodySumIn(_, _)
BodySumIn(lo, hi) ==
    IF lo >= hi THEN 0
    ELSE IF hi - lo = 1 THEN Abs(At(data, lo).close - At(data, lo).open)
    ELSE BodySumIn(lo, Mid(lo, hi)) + BodySumIn(Mid(lo, hi), hi)

WindowSum == BodySumIn(WindowFirst, Len(data))

WindowLen == Len(data) - WindowFirst

\* x > multiplier * mean
AboveMean(x) == x * WindowLen * 10 > obThresholdTenths * WindowSum

\* x > multiplier * mean, the mean replaced by 1 when it is zero
AboveMeanOr1(x) == IF WindowSum = 0 THEN x * 10 > obThresholdTenths ELSE AboveMean(x)

ZonesAt(t, tag) == {z \in 1..Len(obs) : obs[z].time = t /\ obs[z].id = <<tag, t>>}

\* the list the creation loop leaves, described with the impulse test Above(_)
CreatedAsStated(Above(_)) ==
    /\ \A i \in 0..(Len(data) - 1) :
          LET c == At(data, i)
              inRange == 2 <= i /\ i <= Len(data) - 4
          IN  /\ (ZonesAt(c.time, "ob-bull") # {}) <=>
                    /\ inRange
                    /\ c.close < c.open
                    /\ Above(At(data, i + 1).close - At(data, i + 1).open)
                    /\ At(data, i + 1).close > c.high
              /\ (ZonesAt(c.time, "ob-bear") # {}) <=>
                    /\ inRange
                    /\ c.close > c.open
                    /\ Above(At(data, i + 1).open - At(data, i + 1).close)
                    /\ At(data, i + 1).close < c.low
              /\ \A z \in ZonesAt(c.time, "ob-bull") \cup ZonesAt(c.time, "ob-bear") :
                    /\ obs[z].priceLow = c.low /\ obs[z].priceHigh = c.high
                    /\ obs[z].subtype = "Standard" /\ ~obs[z].mitigated
                    /\ obs[z].direction = OriginOf(obs[z])
    /\ \A z \in 1..Len(obs) :
          \E i \in 0..(Len(data) - 1) :
              z \in ZonesAt(At(data, i).time, "ob-bull") \cup ZonesAt(At(data, i).time, "ob-bear")
    /\ \A y, z \in 1..Len(obs) : y < z => obs[y].time < obs[z].time

\* C8 as stated: the creation loop stores a Standard zone at exactly the indices
\* 2..n-4 that meet the candidate condition, IMPULSE_THRESHOLD being the
\* multiplier times the mean body of the last 100 bars.
C8_CandidatesByMean == (pc = "loop" /\ obI = 0) => CreatedAsStated(AboveMean)

\* C8 amended: the same, the mean body being replaced by 1 when it is zero.
C8_CandidatesByMeanOr1 == (pc = "loop" /\ obI = 0) => CreatedAsStated(AboveMeanOr1)

C8_Witness ==
    /\ pc = "loop" /\ obI = 0
    /\ Len(data) > BodyWindow
    /\ WindowSum > 0
    /\ \E z \in 1..Len(obs) : obs[z].direction = "Bullish"

\* the unmitigated zones stored after position z
UnmitigatedAfter(z) == {y \in (z + 1)..Len(obs) : ~obs[y].mitigated}

\* C5 (checked under SpecOBLong): detectOrderBlocks returns at most 10 zones,
\* all with mitigated = false, and they are exactly the last 10 unmitigated
\* zones in detection order: an unmitigated zone is returned iff fewer than 10
\* unmitigated zones were detected after it.
C5_LastTenUnmitigated ==
    pc = "done" =>
        /\ Len(obResult) <= 10
        /\ \A r \in 1..Len(obResult) :
              /\ obResult[r].mitigated = FALSE
              /\ \E z \in 1..Len(obs) : obs[z] = obResult[r]
        /\ \A z \in 1..Len(obs) :
              (\E r \in 1..Len(obResult) : obResult[r].id = obs[z].id)
                  <=> (~obs[z].mitigated /\ Cardinality(UnmitigatedAfter(z)) < 10)
        /\ \A q, r \in 1..Len(obResult) : q < r => obResult[q].time < obResult[r].time

C5_Witness ==
    /\ pc = "done"
    /\ Cardinality(UnmitigatedAfter(0)) > 10
    /\ \E y, z \in 1..Len(obs) : y < z /\ obs[y].mitigated /\ ~obs[z].mitigated
    /\ Len(obResult) = 10

\* the step-by-step run and the one-step run return the same list
StepwiseAgrees == pc = "done" => obResult = detectOrderBlocks(data, obThresholdTenths)

(***************************************************************************)
(* Claims about detectStructure (checked under SpecStruct).                *)
(***************************************************************************)
\* the bar of the series a point was emitted for
PointsAt(t, dir) == {n \in 1..Len(points) : points[n].time = t /\ points[n].direction = dir}

\* C9: the first pivot high and the first pivot low only seed the trackers and
\* emit no StructurePoint, so when both kinds of pivot exist the number of
\* points returned is at most the number of pivots less 2.
C9_SeedsEmitNothing ==
    pc = "done" =>
        LET ph == pivotHighs(data, swingLength)
            pl == pivotLows(data, swingLength)
        IN  /\ Len(ph) > 0 => PointsAt(At(data, ph[1].index).time, "Bearish") = {}
            /\ Len(pl) > 0 => PointsAt(At(data, pl[1].index).time, "Bullish") = {}
            /\ (Len(ph) > 0 /\ Len(pl) > 0) => Len(points) <= Len(ph) + Len(pl) - 2

\* the indices at which the series has its single peak (none, or one)
PeakIndices == {p \in 0..(Len(data) - 1) : IsSinglePeak(data, p)}

\* C10 as stated: every single-peak series of length 4w+1 yields exactly one
\* StructurePoint.
C10_SinglePeakOnePoint ==
    (pc = "done" /\ Len(data) = 4 * swingLength + 1 /\ PeakIndices # {})
        => Len(points) = 1

\* C10 amended: a single-peak series of length 4w+1 whose peak lies at least w
\* bars from either end yields exactly one StructurePoint.
C10_CentralPeakOnePoint ==
    (pc = "done" /\ Len(data) = 4 * swingLength + 1)
        => \A p \in PeakIndices :
              (swingLength <= p /\ p <= 3 * swingLength) => Len(points) = 1

C10_Witness ==
    /\ pc = "done" /\ swingLength = 2 /\ Len(data) = 9
    /\ 3 \in PeakIndices
    /\ Len(points) = 1

\* the indices of the pivot highs and of the pivot lows of the series
PivotHighIdx ==
    {i \in swingLength..(Len(data) - swingLength - 1) :
        \A j \in 1..swingLength :
            /\ At(data, i).high > At(data, i - j).high
            /\ At(data, i).high > At(data, i + j).high}

PivotLowIdx ==
    {i \in swingLength..(Len(data) - swingLength - 1) :
        \A j \in 1..swingLength :
            /\ At(data, i).low < At(data, i - j).low
            /\ At(data, i).low < At(data, i + j).low}

SetMax(S) == CHOOSE x \in S : \A y \in S : x >= y

\* the pivot of the set P that comes immediately before index i
Preceding(P, i) == SetMax({k \in P : k < i})

\* C11: every pivot high after the first emits one point, HH if its price is
\* strictly greater than the price of the immediately preceding pivot high and
\* LH otherwise; every pivot low after the first one point, LL if its price is
\* strictly lower than the preceding pivot low and HL otherwise (so the tracker
\* is the pivot just before, whatever that one was classified); HH/LH points
\* are Bearish, HL/LL points Bullish, and the output is ordered by timestamp.
C11_ClassifyAgainstPreceding ==
    pc = "done" =>
        /\ \A i \in PivotHighIdx :
              i # SetMin(PivotHighIdx) =>
                  LET ps == PointsAt(At(data, i).time, "Bearish")
                      prev == At(data, Preceding(PivotHighIdx, i)).high
                  IN  /\ Cardinality(ps) = 1
                      /\ \A n \in ps :
                            /\ points[n].price = At(data, i).high
                            /\ points[n].type = IF At(data, i).high > prev THEN "HH" ELSE "LH"
        /\ \A i \in PivotLowIdx :
              i # SetMin(PivotLowIdx) =>
                  LET ps == PointsAt(At(data, i).time, "Bullish")
                      prev == At(data, Preceding(PivotLowIdx, i)).low
                  IN  /\ Cardinality(ps) = 1
                      /\ \A n \in ps :
                            /\ points[n].price = At(data, i).low
                            /\ points[n].type = IF At(data, i).low < prev THEN "LL" ELSE "HL"
        /\ \A n \in 1..Len(points) :
              \/ points[n].type \in {"HH", "LH"} /\ points[n].direction = "Bearish"
              \/ points[n].type \in {"HL", "LL"} /\ points[n].direction = "Bullish"
        /\ \A m, n \in 1..Len(points) : m < n => points[m].time <= points[n].time

\* three pivot highs, the third lower than the second and higher than the first,
\* with pivot lows between them
C11_Witness ==
    /\ pc = "done"
    /\ \E a, b, c \in PivotHighIdx :
          /\ a < b /\ b < c
          /\ At(data, a).high < At(data, c).high /\ At(data, c).high < At(data, b).high
          /\ \E n \in PointsAt(At(data, c).time, "Bearish") : points[n].type = "LH"
          /\ \E n \in PointsAt(At(data, b).time, "Bearish") : points[n].type = "HH"
    /\ Cardinality(PivotLowIdx) >= 2
    /\ \E n \in 1..Len(points) : points[n].direction = "Bullish"

(***************************************************************************)
(* detectEntries                                                           *)
(***************************************************************************)
\* what find and ?. give when nothing matches
Undefined == [undefined |-> TRUE]

\* const COOLDOWN = 10 * 60
COOLDOWN == 600

\* the first index of the loop
FirstEntryIndex == 100

\* data.slice(i-50, i)
AvgWindow == 50

\* data.slice(i-5, i+1)
SwingBack == 5

\* prices of a signal's sl and tp are kept in units of 1/PriceScale:
\* candle.close * 0.0005 is candle.close / 2000
PriceScale == 2000

getSession(hour) ==
    IF hour >= 0 /\ hour < 8 THEN "ASIA"
    ELSE IF hour >= 7 /\ hour < 16 THEN "LONDON"
    ELSE IF hour >= 12 /\ hour < 21 THEN "NEW_YORK"
    ELSE "NONE"

\* body > range * 0.6
determinePO3(candle, session) ==
    IF session = "ASIA" THEN "ACCUMULATION"
    ELSE IF session \in {"LONDON", "NEW_YORK"}
    THEN IF Abs(candle.close - candle.open) * 10 > (candle.high - candle.low) * 6
         THEN "DISTRIBUTION" ELSE "MANIPULATION"
    ELSE "NONE"

\* the sum of the closes over the indices lo..hi-1
RECURSIVE sumCloses(_, _, _)
sumCloses(d, lo, hi) ==
    IF lo >= hi THEN 0
    ELSE IF hi - lo = 1 THEN At(d, lo).close
    ELSE sumCloses(d, lo, Mid(lo, hi)) + sumCloses(d, Mid(lo, hi), hi)

\* candle.close > avg, avg the sum of the 50 closes before i over 50
isBullish(d, i) == At(d, i).close * AvgWindow > sumCloses(d, i - AvgWindow, i)

\* Math.min / Math.max over d[from .. to]
RECURSIVE lowestLow(_, _, _)
lowestLow(d, from, to) ==
    IF from = to THEN At(d, from).low
    ELSE Min2(At(d, from).low, lowestLow(d, from + 1, to))

RECURSIVE highestHigh(_, _, _)
highestHigh(d, from, to) ==
    IF from = to THEN At(d, from).high
    ELSE Max2(At(d, from).high, highestHigh(d, from + 1, to))

\* Array.find: the first entry of s at a position of I
FirstIn(s, I) == IF I = {} THEN Undefined ELSE s[CHOOSE n \in I : \A m \in I : n <= m]

LastIn(s, I) == IF I = {} THEN Undefined ELSE s[CHOOSE n \in I : \A m \in I : n >= m]

bullOBMatches(zs, candle) ==
    {n \in 1..Len(zs) :
        /\ zs[n].direction = "Bullish" /\ ~zs[n].mitigated
        /\ candle.low <= zs[n].priceHigh /\ candle.low >= zs[n].priceLow
        /\ zs[n].time < candle.time}

bearOBMatches(zs, candle) ==
    {n \in 1..Len(zs) :
        /\ zs[n].direction = "Bearish" /\ ~zs[n].mitigated
        /\ candle.high >= zs[n].priceLow /\ candle.high <= zs[n].priceHigh
        /\ zs[n].time < candle.time}

bullFVGMatches(gs, candle) ==
    {n \in 1..Len(gs) :
        /\ gs[n].direction = "Bullish"
        /\ candle.low <= gs[n].priceHigh /\ candle.low >= gs[n].priceLow
        /\ gs[n].time < candle.time}

bearFVGMatches(gs, candle) ==
    {n \in 1..Len(gs) :
        /\ gs[n].direction = "Bearish"
        /\ candle.high >= gs[n].priceLow /\ candle.high <= gs[n].priceHigh
        /\ gs[n].time < candle.time}

lastTouchingBullOB(zs, candle) == LastIn(zs, bullOBMatches(zs, candle))

touchingBullOB(zs, candle) == FirstIn(zs, bullOBMatches(zs, candle))

touchingBearOB(zs, candle) == FirstIn(zs, bearOBMatches(zs, candle))

touchingBullFVG(gs, candle) == FirstIn(gs, bullFVGMatches(gs, candle))

touchingBearFVG(gs, candle) == FirstIn(gs, bearFVGMatches(gs, candle))

scoreNoSession(bullOB, bearOB, bullFVG, bearFVG, session) ==
    (IF bullOB # Undefined THEN 3 ELSE 0)
    + (IF bearOB # Undefined THEN 3 ELSE 0)
    + (IF bullFVG # Undefined THEN 2 + (IF bullFVG.isSilverBullet THEN 4 ELSE 0) ELSE 0)
    + (IF bearFVG # Undefined THEN 2 + (IF bearFVG.isSilverBullet THEN 4 ELSE 0) ELSE 0)

\* the score of a bar, from what it touches and its session
scoreOf(bullOB, bearOB, bullFVG, bearFVG, session) ==
    (IF bullOB # Undefined THEN 3 ELSE 0)
    + (IF bearOB # Undefined THEN 3 ELSE 0)
    + (IF bullFVG # Undefined THEN 2 + (IF bullFVG.isSilverBullet THEN 4 ELSE 0) ELSE 0)
    + (IF bearFVG # Undefined THEN 2 + (IF bearFVG.isSilverBullet THEN 4 ELSE 0) ELSE 0)
    + (IF session # "NONE" THEN 1 ELSE 0)

confluencesOf(bullOB, bearOB, bullFVG, bearFVG) ==
    (IF bullOB # Undefined
        THEN <<IF bullOB.subtype = "Breaker" THEN "Retest Bullish Breaker"
               ELSE "Retest Bullish OB">>
        ELSE <<>>)
    \o (IF bearOB # Undefined
        THEN <<IF bearOB.subtype = "Breaker" THEN "Retest Bearish Breaker"
               ELSE "Retest Bearish OB">>
        ELSE <<>>)
    \o (IF bullFVG # Undefined
        THEN <<"Discount FVG">> \o (IF bullFVG.isSilverBullet THEN <<"Silver Bullet Zone">> ELSE <<>>)
        ELSE <<>>)
    \o (IF bearFVG # Undefined
        THEN <<"Premium FVG">> \o (IF bearFVG.isSilverBullet THEN <<"Silver Bullet Zone">> ELSE <<>>)
        ELSE <<>>)

cooledDownNoLast(t, last) == t > COOLDOWN

\* (candle.time as number) - lastSignalTime > COOLDOWN
cooledDown(t, last) == t - last > COOLDOWN

\* touchingBullOB?.priceLow || swingLow
orElse(x, y) == IF x = 0 THEN y ELSE x

\* the stop of a LONG at index i, in units of 1/PriceScale
longStop(d, i, bullOB) ==
    LET swingLow == lowestLow(d, i - SwingBack, i)
        zoneLow == IF bullOB # Undefined THEN orElse(bullOB.priceLow, swingLow) ELSE swingLow
    IN  Min2(swingLow, zoneLow) * PriceScale - At(d, i).close

\* the stop of a SHORT at index i, in units of 1/PriceScale
shortStop(d, i, bearOB) ==
    LET swingHigh == highestHigh(d, i - SwingBack, i)
        zoneHigh == IF bearOB # Undefined THEN orElse(bearOB.priceHigh, swingHigh) ELSE swingHigh
    IN  Max2(swingHigh, zoneHigh) * PriceScale + At(d, i).close

EntrySignal(candle, type, score, confluences, sl, tp, tf, po3) ==
    [time |-> candle.time, type |-> type, price |-> candle.close, score |-> score,
     confluences |-> confluences, sl |-> sl, tp |-> tp,
     winProbability |-> Min2(95, score * 10 + 30),
     tradingStyle |-> IF tf \in {"1m", "3m", "5m"} THEN "SCALP" ELSE "DAY_TRADE",
     po3Phase |-> po3]

shortFirst(isBull, bullOB, bearOB, bullFVG, bearFVG) ==
    IF bearOB # Undefined \/ bearFVG # Undefined THEN "SHORT"
    ELSE IF bullOB # Undefined \/ bullFVG # Undefined THEN "LONG"
    ELSE "NONE"

\* the branch taken inside the gate
sideOf(isBull, bullOB, bearOB, bullFVG, bearFVG) ==
    IF isBull /\ (bullOB # Undefined \/ bullFVG # Undefined) THEN "LONG"
    ELSE IF ~isBull /\ (bearOB # Undefined \/ bearFVG # Undefined) THEN "SHORT"
    ELSE "NONE"

\* one pass of the loop body at index i: the signals pushed (none or one)
entryAt(d, zs, gs, tf, i, last) ==
    LET candle == At(d, i)
        bullOB == touchingBullOB(zs, candle)
        bearOB == touchingBearOB(zs, candle)
        bullFVG == touchingBullFVG(gs, candle)
        bearFVG == touchingBearFVG(gs, candle)
        session == getSession(getUTCHours(candle.time))
        score == scoreOf(bullOB, bearOB, bullFVG, bearFVG, session)
        confluences == confluencesOf(bullOB, bearOB, bullFVG, bearFVG)
        po3 == determinePO3(candle, session)
        side == sideOf(isBullish(d, i), bullOB, bearOB, bullFVG, bearFVG)
    IN  IF score >= 4 /\ cooledDown(candle.time, last)
        THEN IF side = "LONG"
             THEN LET sl == longStop(d, i, bullOB)
                      risk == candle.close * PriceScale - sl
                  IN  <<EntrySignal(candle, "LONG", score, confluences, sl,
                                    candle.close * PriceScale + risk * 2, tf, po3)>>
             ELSE IF side = "SHORT"
             THEN LET sl == shortStop(d, i, bearOB)
                      risk == sl - candle.close * PriceScale
                  IN  <<EntrySignal(candle, "SHORT", score, confluences, sl,
                                    candle.close * PriceScale - risk * 2, tf, po3)>>
             ELSE <<>>
        ELSE <<>>

\* the loop from index i on: the signals pushed and the lastSignalTime left
RECURSIVE entriesFrom(_, _, _, _, _, _)
entriesFrom(d, zs, gs, tf, i, last) ==
    IF i >= Len(d) THEN [signals |-> <<>>, lastSignalTime |-> last]
    ELSE LET pushed == entryAt(d, zs, gs, tf, i, last)
             rest == entriesFrom(d, zs, gs, tf, i + 1,
                                 IF pushed # <<>> THEN At(d, i).time ELSE last)
         IN  [signals |-> pushed \o rest.signals, lastSignalTime |-> rest.lastSignalTime]

detectEntriesEarly(d, zs, gs, tf) == entriesFrom(d, zs, gs, tf, FirstEntryIndex - 1, 0)

\* let lastSignalTime = 0; for (let i = 100; i < data.length; i++)
detectEntries(d, zs, gs, tf) == entriesFrom(d, zs, gs, tf, FirstEntryIndex, 0)

(***************************************************************************)
(* performBacktest                                                         *)
(***************************************************************************)
RISK_AMOUNT == 1000

REWARD_AMOUNT == 2000

\* currentBalance at the start, and the first entry of equityCurve
InitialBalance == 100000

scanOutcomeWinFirst(d, signal, from) ==
    LET hit(i) ==
            IF signal.type = "LONG"
            THEN At(d, i).low * PriceScale <= signal.sl \/ At(d, i).high * PriceScale >= signal.tp
            ELSE At(d, i).high * PriceScale >= signal.sl \/ At(d, i).low * PriceScale <= signal.tp
        won(i) ==
            IF signal.type = "LONG" THEN At(d, i).high * PriceScale >= signal.tp
            ELSE At(d, i).low * PriceScale <= signal.tp
        hits == {i \in from..(Len(d) - 1) : hit(i)}
    IN  IF hits = {} THEN "PENDING"
        ELSE IF won(CHOOSE i \in hits : \A j \in hits : i <= j) THEN "WIN" ELSE "LOSS"

\* the loop over the bars from index `from` on, left at the first boundary hit
RECURSIVE scanOutcome(_, _, _)
scanOutcome(d, signal, from) ==
    IF from >= Len(d) THEN "PENDING"
    ELSE LET candle == At(d, from)
         IN  IF signal.type = "LONG"
             THEN IF candle.low * PriceScale <= signal.sl THEN "LOSS"
                  ELSE IF candle.high * PriceScale >= signal.tp THEN "WIN"
                  ELSE scanOutcome(d, signal, from + 1)
             ELSE IF candle.high * PriceScale >= signal.sl THEN "LOSS"
                  ELSE IF candle.low * PriceScale <= signal.tp THEN "WIN"
                  ELSE scanOutcome(d, signal, from + 1)

pnlSymmetric(result) ==
    IF result = "WIN" THEN RISK_AMOUNT ELSE IF result = "LOSS" THEN -RISK_AMOUNT ELSE 0

pnlOf(result) ==
    IF result = "WIN" THEN REWARD_AMOUNT ELSE IF result = "LOSS" THEN -RISK_AMOUNT ELSE 0

\* the running totals before the first signal
InitialTotals ==
    [wins |-> 0, losses |-> 0, netPnL |-> 0, maxDrawdown |-> 0, peakBalance |-> 0,
     currentBalance |-> InitialBalance, equityCurve |-> <<InitialBalance>>,
     results |-> <<>>]

\* equityCurve.push(currentBalance)
pushBalance(curve, result, newBalance) == Append(curve, newBalance)

\* one call of the map callback: the totals after the signal
processSignal(d, signal, t) ==
    LET startIndex == findIndex(d, signal.time)
    IN  IF startIndex = -1 THEN [t EXCEPT !.results = Append(@, signal)]
        ELSE LET result == scanOutcome(d, signal, startIndex + 1)
                 pnl == pnlOf(result)
                 newBalance == t.currentBalance + pnl
                 peak == Max2(t.peakBalance, newBalance)
             IN  [wins |-> t.wins + (IF result = "WIN" THEN 1 ELSE 0),
                  losses |-> t.losses + (IF result = "LOSS" THEN 1 ELSE 0),
                  netPnL |-> t.netPnL + pnl,
                  maxDrawdown |-> Max2(t.maxDrawdown, peak - newBalance),
                  peakBalance |-> peak,
                  currentBalance |-> newBalance,
                  equityCurve |-> pushBalance(t.equityCurve, result, newBalance),
                  results |-> Append(t.results,
                                     signal @@ [backtestResult |-> result, backtestPnL |-> pnl])]

\* signals.map(...), from position n on
RECURSIVE processSignals(_, _, _, _)
processSignals(d, sigs, n, t) ==
    IF n > Len(sigs) THEN t
    ELSE processSignals(d, sigs, n + 1, processSignal(d, sigs[n], t))

\* winRate and profitFactor are kept as fractions num / den
BacktestStats(t) ==
    LET totalTrades == t.wins + t.losses
    IN  [totalTrades |-> totalTrades, wins |-> t.wins, losses |-> t.losses,
         winRate |-> IF totalTrades > 0 THEN [num |-> t.wins * 100, den |-> totalTrades]
                     ELSE [num |-> 0, den |-> 1],
         netPnL |-> t.netPnL,
         profitFactor |-> IF t.losses > 0
                          THEN [num |-> t.wins * 2000, den |-> t.losses * 1000]
                          ELSE IF t.wins > 0 THEN [num |-> 999, den |-> 1]
                          ELSE [num |-> 0, den |-> 1],
         maxDrawdown |-> t.maxDrawdown, equityCurve |-> t.equityCurve]

performBacktest(d, sigs) ==
    LET t == processSignals(d, sigs, 1, InitialTotals)
    IN  [stats |-> BacktestStats(t), results |-> t.results]

(***************************************************************************)
(* Input series of the pipeline.  A long series is a scene (a few bars     *)
(* that leave zones and gaps), flat bars on PadLevel up to index 99, and a *)
(* tail of bars from index 100 on, each of one of a few shapes; its first  *)
(* bar is at StartHour o'clock and its bars are one timeframe apart.       *)
(***************************************************************************)
\* seconds between two bars of the timeframe requested from the API
tfSeconds(tf) == IF tf = "1m" THEN 60 ELSE IF tf = "5m" THEN 300 ELSE 900

\* time: c[0] / 1000
Retime(d, start, step) == [i \in 1..Len(d) |-> [d[i] EXCEPT !.time = start + (i - 1) * step]]

everyTimeframe == {"1m", "5m", "15m", "1h"}

allowedObTimeframes == {"5m", "15m", "1h"}

\* the closes of a scene, as offsets from PadLevel, and the offset of the low
\* (negative) or high (positive) of the bar SwingBack before FirstEntryIndex
Scene(name) ==
    CASE name = "bull"      -> [closes |-> <<0, 0, -1, 1, 0>>, notch |-> 0]
      [] name = "bear"      -> [closes |-> <<0, 0, 1, -1, 0>>, notch |-> 0]
      [] name = "bullBoth"  -> [closes |-> <<-1, -1, -2, 0>>, notch |-> 0]
      [] name = "bearBoth"  -> [closes |-> <<1, 1, 2, 0>>, notch |-> 0]
      [] name = "bull2"     -> [closes |-> <<-1, -1, -2, 0, -1, 1, 0>>, notch |-> 0]
      [] name = "bear2"     -> [closes |-> <<1, 1, 2, 0, 1, -1, 0>>, notch |-> 0]
      [] name = "bullNotch" -> [closes |-> <<0, 0, -1, 1, 0>>, notch |-> -3]
      [] name = "bearNotch" -> [closes |-> <<0, 0, 1, -1, 0>>, notch |-> 3]
      [] name = "gap2"      -> [closes |-> <<-3, -3, -3, -1, 1, 0>>, notch |-> 0]
      [] name = "twoSided"  -> [closes |-> <<-4, -4, -1, 0, 3, 3, 1, 0>>, notch |-> 0]

OutcomeScenes == {"bull", "bear"}

\* the bars of a tail, as offsets from PadLevel
Shape(name) ==
    CASE name = "dip"   -> [open |-> 0, high |-> 2, low |-> -1, close |-> 2]
      [] name = "pop"   -> [open |-> 0, high |-> 1, low |-> -2, close |-> -2]
      [] name = "flat"  -> [open |-> 0, high |-> 0, low |-> 0, close |-> 0]
      [] name = "spike" -> [open |-> 0, high |-> 10, low |-> 0, close |-> 0]
      [] name = "crash" -> [open |-> 0, high |-> 0, low |-> -10, close |-> 0]
      [] name = "whip"  -> [open |-> 0, high |-> 10, low |-> -10, close |-> 0]

TouchShapes == {"dip", "pop", "flat"}

\* the bar that enters on the scene's zone, and the bars that end a trade
OutcomeShapes(scene) == {IF scene = "bull" THEN "dip" ELSE "pop", "spike", "crash", "whip"}

ShapeBars(from, names, n) ==
    [i \in 1..n |->
        LET sh == Shape(names[i])
        IN  CandleData(from + i - 1, PadLevel + sh.open, PadLevel + sh.high,
                       PadLevel + sh.low, PadLevel + sh.close)]

SceneBars(sc) ==
    BarsOfCloses([i \in 1..Len(sc.closes) |-> PadLevel + sc.closes[i]], Len(sc.closes), 0)

\* the bar at index i, flat on PadLevel, given a wick of `notch`
Notched(d, i, notch) ==
    IF notch = 0 THEN d
    ELSE [d EXCEPT ![i + 1] =
            CandleData(i, PadLevel, PadLevel + Max2(notch, 0), PadLevel + Min2(notch, 0),
                       PadLevel)]

LongSeriesOf(scene, names, n) ==
    LET sc == Scene(scene)
        k == Len(sc.closes)
        head == SceneBars(sc) \o FlatBars(k, FirstEntryIndex - k, PadLevel)
    IN  Notched(head, FirstEntryIndex - SwingBack, sc.notch)
        \o ShapeBars(FirstEntryIndex, names, n)

ShortPrices == (PadLevel - 1)..(PadLevel + 1)

(***************************************************************************)
(* The pipeline of fetchData on the bars received.                         *)
(***************************************************************************)
\* the runs of the touch families, as <<scene, timeframe, start hour>>: zones on
\* the timeframes that look for zones, gaps with and without a silver-bullet
\* hour, entry bars inside and outside the session windows, a bullish gap
\* below a bearish one
TouchRuns ==
    {<<"bull", "5m", 0>>, <<"bear", "5m", 0>>,
     <<"bull2", "15m", 0>>, <<"bear2", "15m", 0>>,
     <<"bullNotch", "15m", 0>>, <<"bearNotch", "15m", 0>>,
     <<"bullBoth", "5m", 14>>, <<"bearBoth", "5m", 14>>,
     <<"bullBoth", "1m", 14>>, <<"bearBoth", "1m", 14>>,
     <<"bullBoth", "15m", 0>>, <<"bearBoth", "15m", 0>>,
     <<"gap2", "15m", 14>>, <<"gap2", "1m", 0>>,
     <<"twoSided", "5m", 14>>}

InitPipeline ==
    /\ pc = "start"
    /\ \/ \E run \in TouchRuns : \E n \in 0..MaxTail : \E names \in [1..n -> TouchShapes] :
             /\ timeframe = run[2] /\ swingLength = 1
             /\ data = Retime(LongSeriesOf(run[1], names, n), run[3] * 3600,
                              tfSeconds(run[2]))
       \/ \E scene \in OutcomeScenes :
          \E n \in 0..MaxTail : \E names \in [1..n -> OutcomeShapes(scene)] :
             /\ timeframe = "15m" /\ swingLength = 1
             /\ data = Retime(LongSeriesOf(scene, names, n), 0, tfSeconds("15m"))
       \/ \E n \in 0..MaxBarsP : \E cl \in [1..n -> ShortPrices] :
             /\ timeframe = "5m" /\ swingLength \in 1..MaxSwing
             /\ data = Retime(BarsOfCloses(cl, n, 0), 0, tfSeconds("5m"))
    /\ points = <<>> /\ fvgs = <<>> /\ fvgResult = <<>>
    /\ obs = <<>> /\ obI = 0 /\ obK = 0 /\ obResult = <<>>
    /\ signals = <<>> /\ lastSignalTime = 0
    /\ stats = NoStats /\ results = <<>>
    /\ AppIdle

\* lines 827-842, on the bars received: the detectors, detectEntries (with
\* the lastSignalTime its loop ends on) and performBacktest
RunPipeline ==
    /\ pc = "start"
    /\ points' = detectStructure(data, swingLength)
    /\ obResult' = IF timeframe \in allowedObTimeframes
                   THEN detectOrderBlocks(data, obThresholdTenths) ELSE <<>>
    /\ fvgResult' = detectFVG(data)
    /\ \E run \in {detectEntries(data, obResult', fvgResult', timeframe)} :
          /\ signals' = run.signals
          /\ lastSignalTime' = run.lastSignalTime
    /\ \E bt \in {performBacktest(data, signals')} :
          /\ stats' = bt.stats
          /\ results' = bt.results
    /\ pc' = "done"
    /\ UNCHANGED <<data, swingLength, fvgs, obs, obI, obK, timeframe, appVars>>

NextPipeline == RunPipeline

SpecPipeline == InitPipeline /\ [][NextPipeline]_vars

(***************************************************************************)
(* Claims about the pipeline.                                              *)
(***************************************************************************)
C12_ZeroStats ==
    [totalTrades |-> 0, wins |-> 0, losses |-> 0, winRate |-> [num |-> 0, den |-> 1],
     netPnL |-> 0, profitFactor |-> [num |-> 0, den |-> 1], maxDrawdown |-> 0,
     equityCurve |-> <<100000>>]

\* C12: on short input every detector returns the empty sequence: detectStructure
\* for fewer than 2w+1 bars, detectFVG for fewer than 3, detectOrderBlocks for
\* fewer than 6, detectEntries for 100 bars or fewer; performBacktest on no
\* signals returns zero stats with equityCurve = <<100000>> and no result
C12_TotalOnShortInput ==
    pc = "done" =>
        /\ Len(data) < 2 * swingLength + 1 => points = <<>>
        /\ Len(data) < 3 => fvgResult = <<>>
        /\ Len(data) < 6 => obResult = <<>>
        /\ Len(data) <= 100 => signals = <<>>
        /\ signals = <<>> => stats = C12_ZeroStats /\ results = <<>>

\* a series of exactly 100 bars that leaves a zone, and no signal
C12_Witness ==
    /\ pc = "done" /\ Len(data) = 100
    /\ obResult # <<>>
    /\ signals = <<>> /\ stats = C12_ZeroStats

\* the indices the loop of detectEntries visits
EntryIndices == 100..(Len(data) - 1)

\* what the bar at index i touches among the zones and gaps handed to detectEntries
BullOBAt(i) == touchingBullOB(obResult, At(data, i))

BearOBAt(i) == touchingBearOB(obResult, At(data, i))

BullFVGAt(i) == touchingBullFVG(fvgResult, At(data, i))

BearFVGAt(i) == touchingBearFVG(fvgResult, At(data, i))

SessionAt(i) == getSession(getUTCHours(At(data, i).time))

ScoreAt(i) == scoreOf(BullOBAt(i), BearOBAt(i), BullFVGAt(i), BearFVGAt(i), SessionAt(i))

\* the direction conditions of the bar at index i
LongAt(i) == isBullish(data, i) /\ (BullOBAt(i) # Undefined \/ BullFVGAt(i) # Undefined)

ShortAt(i) == ~isBullish(data, i) /\ (BearOBAt(i) # Undefined \/ BearFVGAt(i) # Undefined)

QualifiesAt(i) == ScoreAt(i) >= 4 /\ (LongAt(i) \/ ShortAt(i))

SignalTimes == {signals[k].time : k \in 1..Len(signals)}

EmitsAt(i) == At(data, i).time \in SignalTimes

\* the timestamp of the last signal emitted before the bar at index i, 0 when
\* there is none
LastEmittedBefore(i) ==
    LET earlier == {t \in SignalTimes : t < At(data, i).time}
    IN  IF earlier = {} THEN 0 ELSE SetMax(earlier)

\* C13: a bar at index >= 100 with score >= 4 whose Long or Short condition
\* holds emits a signal whenever its timestamp is at least 600 seconds after
\* that of the last emitted signal, exactly 600 seconds included.
C13_EmitsAtSixHundred ==
    pc = "done" =>
        \A i \in EntryIndices :
            (QualifiesAt(i) /\ At(data, i).time - LastEmittedBefore(i) >= 600) => EmitsAt(i)

\* C14: among qualifying bars less than 600 seconds apart only the first emits
\* a signal; the signals are in strictly increasing timestamp order, no two
\* consecutive ones less than 600 seconds apart; a qualifying bar that emits
\* nothing does not restart the cooldown: a qualifying bar more than 600 seconds
\* after the last emitted signal emits, whatever qualified in between
C14_OneSignalPerCooldown ==
    pc = "done" =>
        /\ \A k \in 1..(Len(signals) - 1) :
              /\ signals[k].time < signals[k + 1].time
              /\ signals[k + 1].time - signals[k].time >= 600
        /\ \A i, j \in EntryIndices :
              (/\ i < j /\ QualifiesAt(i) /\ QualifiesAt(j) /\ EmitsAt(i)
               /\ At(data, j).time - At(data, i).time < 600) => ~EmitsAt(j)
        /\ \A i \in EntryIndices :
              (QualifiesAt(i) /\ At(data, i).time - LastEmittedBefore(i) > 600) => EmitsAt(i)
        /\ \A i \in EntryIndices : EmitsAt(i) => QualifiesAt(i)

\* a signal, a qualifying bar 300 seconds later that emits nothing, and a
\* signal 900 seconds after the first, 300 seconds after a blocked bar
C14_Witness ==
    /\ pc = "done" /\ timeframe = "5m" /\ Len(data) >= 104
    /\ EmitsAt(100)
    /\ QualifiesAt(101) /\ ~EmitsAt(101)
    /\ QualifiesAt(102) /\ ~EmitsAt(102)
    /\ EmitsAt(103)

\* the index of the bar the k-th signal was emitted for
SignalIndex(k) == CHOOSE i \in EntryIndices : At(data, i).time = signals[k].time

\* close strictly above the mean close of the 50 bars before index i
AboveMeanClose(i) == At(data, i).close * 50 > sumCloses(data, i - 50, i)

\* C15: a Long signal comes from a bar whose close is strictly above the mean
\* close of the preceding 50 bars and which touches a bullish zone or gap; a
\* Short signal from a bar that is not bullish-biased and touches a bearish zone
\* or gap; a bar with score >= 4 that meets neither condition emits nothing;
\* no bar emits more than one signal
C15_DirectionConditions ==
    pc = "done" =>
        /\ \A k \in 1..Len(signals) :
              /\ signals[k].time \in {At(data, i).time : i \in EntryIndices}
              /\ signals[k].type \in {"LONG", "SHORT"}
              /\ signals[k].type = "LONG" =>
                    /\ AboveMeanClose(SignalIndex(k))
                    /\ BullOBAt(SignalIndex(k)) # Undefined \/ BullFVGAt(SignalIndex(k)) # Undefined
              /\ signals[k].type = "SHORT" =>
                    /\ ~AboveMeanClose(SignalIndex(k))
                    /\ BearOBAt(SignalIndex(k)) # Undefined \/ BearFVGAt(SignalIndex(k)) # Undefined
        /\ \A i \in EntryIndices :
              (ScoreAt(i) >= 4 /\ ~LongAt(i) /\ ~ShortAt(i)) => ~EmitsAt(i)
        /\ \A k, l \in 1..Len(signals) : k # l => signals[k].time # signals[l].time

\* a Long signal at bar 100, and a bar 900 seconds later with score >= 4 that
\* touches a bullish zone without a close above the mean and emits nothing
C15_Witness ==
    /\ pc = "done" /\ timeframe = "15m" /\ Len(data) >= 102
    /\ Len(signals) >= 1 /\ signals[1].type = "LONG" /\ SignalIndex(1) = 100
    /\ ScoreAt(101) >= 4 /\ BullOBAt(101) # Undefined
    /\ ~LongAt(101) /\ ~ShortAt(101) /\ ~EmitsAt(101)

\* the positions in the zone list (gap list) of the entries of the given
\* direction that hold the price p and are anchored strictly before time t
ZonesHolding(dir, p, t) ==
    {n \in 1..Len(obResult) :
        /\ obResult[n].direction = dir /\ ~obResult[n].mitigated
        /\ obResult[n].priceLow <= p /\ p <= obResult[n].priceHigh
        /\ obResult[n].time < t}

GapsHolding(dir, p, t) ==
    {n \in 1..Len(fvgResult) :
        /\ fvgResult[n].direction = dir
        /\ fvgResult[n].priceLow <= p /\ p <= fvgResult[n].priceHigh
        /\ fvgResult[n].time < t}

ZoneTag(z) ==
    IF z.direction = "Bullish"
    THEN (IF z.subtype = "Breaker" THEN "Retest Bullish Breaker" ELSE "Retest Bullish OB")
    ELSE (IF z.subtype = "Breaker" THEN "Retest Bearish Breaker" ELSE "Retest Bearish OB")

ZoneTags ==
    {"Retest Bullish Breaker", "Retest Bullish OB", "Retest Bearish Breaker", "Retest Bearish OB"}

\* the tags of s that are among T, in the order of s
TagsAmong(s, T) == SelectSeq(s, LAMBDA tag : tag \in T)

\* the tags a bar gets from the first bullish and the first bearish zone
FirstZoneTags(i) ==
    LET bull == ZonesHolding("Bullish", At(data, i).low, At(data, i).time)
        bear == ZonesHolding("Bearish", At(data, i).high, At(data, i).time)
    IN  (IF bull = {} THEN <<>> ELSE <<ZoneTag(obResult[SetMin(bull)])>>)
        \o (IF bear = {} THEN <<>> ELSE <<ZoneTag(obResult[SetMin(bear)])>>)

\* the tags a bar gets from the first bullish and the first bearish gap
FirstGapTags(i) ==
    LET bull == GapsHolding("Bullish", At(data, i).low, At(data, i).time)
        bear == GapsHolding("Bearish", At(data, i).high, At(data, i).time)
    IN  (IF bull = {} THEN <<>>
         ELSE <<"Discount FVG">>
              \o (IF fvgResult[SetMin(bull)].isSilverBullet THEN <<"Silver Bullet Zone">> ELSE <<>>))
        \o (IF bear = {} THEN <<>>
            ELSE <<"Premium FVG">>
                 \o (IF fvgResult[SetMin(bear)].isSilverBullet THEN <<"Silver Bullet Zone">> ELSE <<>>))

\* the stop of a signal at index i from the first zone of its direction that
\* holds the bar, in units of 1/2000
FirstZoneStop(i, type) ==
    LET bull == ZonesHolding("Bullish", At(data, i).low, At(data, i).time)
        bear == ZonesHolding("Bearish", At(data, i).high, At(data, i).time)
        swingLow == lowestLow(data, i - SwingBack, i)
        swingHigh == highestHigh(data, i - SwingBack, i)
    IN  IF type = "LONG"
        THEN (IF bull = {} THEN swingLow ELSE Min2(swingLow, obResult[SetMin(bull)].priceLow))
                 * 2000 - At(data, i).close
        ELSE (IF bear = {} THEN swingHigh ELSE Max2(swingHigh, obResult[SetMin(bear)].priceHigh))
                 * 2000 + At(data, i).close

\* C16: of several zones of the required direction that hold the bar's low
\* (bullish) or high (bearish) and are anchored strictly before the bar, the
\* first in the storage order of the zone list gives the confluence tag and the
\* stop level; a zone anchored at or after the bar is never matched; the same
\* first-match rule applies to gaps
C16_FirstMatchInStorageOrder ==
    pc = "done" =>
        \A k \in 1..Len(signals) :
            /\ TagsAmong(signals[k].confluences, ZoneTags) = FirstZoneTags(SignalIndex(k))
            /\ TagsAmong(signals[k].confluences, {"Discount FVG", "Premium FVG", "Silver Bullet Zone"})
                  = FirstGapTags(SignalIndex(k))
            /\ signals[k].sl = FirstZoneStop(SignalIndex(k), signals[k].type)

\* a Long signal from a bar whose low is held by two bullish zones with
\* different lower bounds, the later one anchored before the bar as well
C16_Witness ==
    /\ pc = "done"
    /\ \E k \in 1..Len(signals) :
          LET i == SignalIndex(k)
              held == ZonesHolding("Bullish", At(data, i).low, At(data, i).time)
          IN  /\ signals[k].type = "LONG"
              /\ Cardinality(held) >= 2
              /\ obResult[SetMin(held)].priceLow < obResult[SetMax(held)].priceLow
              /\ obResult[SetMin(held)].priceLow < lowestLow(data, i - SwingBack, i)
              /\ signals[k].sl = obResult[SetMin(held)].priceLow * 2000 - At(data, i).close

\* 1 when the condition holds, 0 otherwise
Iverson(b) == IF b THEN 1 ELSE 0

\* the UTC hour of the bar at index i
HourAt(i) == (At(data, i).time \div 3600) % 24

\* the score of the bar at index i, from the first zone and gap of either
\* direction that hold it and from its hour
StatedScore(i) ==
    LET bullZone == ZonesHolding("Bullish", At(data, i).low, At(data, i).time)
        bearZone == ZonesHolding("Bearish", At(data, i).high, At(data, i).time)
        bullGap == GapsHolding("Bullish", At(data, i).low, At(data, i).time)
        bearGap == GapsHolding("Bearish", At(data, i).high, At(data, i).time)
    IN  3 * Iverson(bullZone # {}) + 3 * Iverson(bearZone # {})
        + 2 * Iverson(bullGap # {})
        + 4 * Iverson(bullGap # {} /\ fvgResult[SetMin(bullGap)].isSilverBullet)
        + 2 * Iverson(bearGap # {})
        + 4 * Iverson(bearGap # {} /\ fvgResult[SetMin(bearGap)].isSilverBullet)
        + Iverson(HourAt(i) < 21)

\* C17: the score of every signal is 3 per touched zone direction, 2 per
\* touched gap direction, 4 more when that gap is a silver-bullet gap, and 1
\* when the bar's UTC hour is below 21; its confluences are exactly the tags
\* of the zone and gap factors that scored, in that order
C17_ScoreAndConfluences ==
    pc = "done" =>
        \A k \in 1..Len(signals) :
            /\ signals[k].score = StatedScore(SignalIndex(k))
            /\ signals[k].confluences
                  = FirstZoneTags(SignalIndex(k)) \o FirstGapTags(SignalIndex(k))

\* a signal outside every session window that scores 3 + 2 + 4 from a zone and
\* a silver-bullet gap, in that order
C17_Witness ==
    /\ pc = "done"
    /\ \E k \in 1..Len(signals) :
          /\ HourAt(SignalIndex(k)) >= 21
          /\ signals[k].score = 9
          /\ signals[k].confluences = <<"Retest Bullish OB", "Discount FVG", "Silver Bullet Zone">>

\* the lowest low and the highest high of the 5 bars ending at index i
FiveBarLow(i) == SetMin({At(data, j).low : j \in (i - 4)..i})

FiveBarHigh(i) == SetMax({At(data, j).high : j \in (i - 4)..i})

\* the stop of C18 for a signal at index i, in units of 1/2000: 0.05% of the
\* close is close / 2000
StatedStop(i, type) ==
    IF type = "LONG"
    THEN (IF BullOBAt(i) # Undefined THEN Min2(FiveBarLow(i), BullOBAt(i).priceLow)
          ELSE FiveBarLow(i)) * 2000 - At(data, i).close
    ELSE (IF BearOBAt(i) # Undefined THEN Max2(FiveBarHigh(i), BearOBAt(i).priceHigh)
          ELSE FiveBarHigh(i)) * 2000 + At(data, i).close

\* C18: the stop of a Long is the smaller of the lowest low of the 5 bars
\* ending at its bar and the touched bullish zone's priceLow, less 0.05% of the
\* close, and its target is entry + 2 * (entry - stop); a Short is the mirror
\* with the highest high, the bearish zone's priceHigh, plus 0.05%, and
\* target entry - 2 * (stop - entry)
C18_StopFromFiveBars ==
    pc = "done" =>
        \A k \in 1..Len(signals) :
            LET entry == signals[k].price * 2000
            IN  /\ signals[k].price = At(data, SignalIndex(k)).close
                /\ signals[k].sl = StatedStop(SignalIndex(k), signals[k].type)
                /\ signals[k].type = "LONG" => signals[k].tp = entry + 2 * (entry - signals[k].sl)
                /\ signals[k].type = "SHORT" => signals[k].tp = entry - 2 * (signals[k].sl - entry)

\* the k-th signal's stop (target) is reached by the bar at index j
StopReached(k, j) ==
    IF results[k].type = "LONG" THEN At(data, j).low * 2000 <= results[k].sl
    ELSE At(data, j).high * 2000 >= results[k].sl

TargetReached(k, j) ==
    IF results[k].type = "LONG" THEN At(data, j).high * 2000 >= results[k].tp
    ELSE At(data, j).low * 2000 <= results[k].tp

\* the index of the bar the k-th result is anchored at
ResultIndex(k) == CHOOSE i \in 0..(Len(data) - 1) : At(data, i).time = results[k].time

\* the bars after the anchor of the k-th result that reach one of its boundaries
BoundaryBars(k) ==
    {j \in (ResultIndex(k) + 1)..(Len(data) - 1) : StopReached(k, j) \/ TargetReached(k, j)}

\* C19: each signal is resolved at the first bar after its anchor that reaches
\* a boundary: Loss with pnl -1000 when that bar reaches the stop (also when it
\* reaches both), otherwise Win with pnl +2000, which raises the equity by
\* 2000; a signal whose boundaries are never reached is Pending with pnl 0
C19_FirstBoundaryDecides ==
    pc = "done" =>
        /\ Len(results) = Len(signals)
        /\ \A k \in 1..Len(results) :
              /\ BoundaryBars(k) = {} =>
                    results[k].backtestResult = "PENDING" /\ results[k].backtestPnL = 0
              /\ BoundaryBars(k) # {} =>
                    IF StopReached(k, SetMin(BoundaryBars(k)))
                    THEN results[k].backtestResult = "LOSS" /\ results[k].backtestPnL = -1000
                    ELSE /\ results[k].backtestResult = "WIN" /\ results[k].backtestPnL = 2000
                         /\ stats.equityCurve[k + 1] = stats.equityCurve[k] + 2000

\* a Long whose target is reached on an earlier bar than its stop and is Win,
\* and a Long whose first boundary bar reaches both boundaries and is Loss
C19_Witness ==
    /\ pc = "done"
    /\ \E k \in 1..Len(results) :
          /\ results[k].type = "LONG" /\ results[k].backtestResult = "WIN"
          /\ \E j \in BoundaryBars(k) : StopReached(k, j)
    /\ \E k \in 1..Len(results) :
          /\ results[k].type = "LONG" /\ results[k].backtestResult = "LOSS"
          /\ TargetReached(k, SetMin(BoundaryBars(k)))

\* the number of results with the given outcome
Outcomes(result) == Cardinality({k \in 1..Len(results) : results[k].backtestResult = result})

\* C20: the equity curve starts at 100000 and gets one entry per resolved (Win
\* or Loss) signal: its length is 1 + wins + losses; a signal that stays
\* Pending appends no entry and adds nothing to netPnL, wins and losses
C20_CurvePerResolvedSignal ==
    pc = "done" =>
        /\ stats.equityCurve[1] = 100000
        /\ Len(stats.equityCurve) = 1 + stats.wins + stats.losses
        /\ stats.wins = Outcomes("WIN") /\ stats.losses = Outcomes("LOSS")
        /\ stats.netPnL = 2000 * Outcomes("WIN") - 1000 * Outcomes("LOSS")

(***************************************************************************)
(* performBacktest on its own: any short series and any short list of      *)
(* signals, anchored on a bar of the series or on no bar of it.            *)
(***************************************************************************)
\* longest series handed to performBacktest on its own
MaxBarsB == 3

\* lengths of the signal list
BacktestCounts == 0..3

\* <<low, high>> of a bar: quiet, reaching down, reaching up, reaching both
BacktestPairs == {<<2, 2>>, <<1, 2>>, <<2, 3>>, <<1, 3>>}

\* a signal entered at 2 on the bar at index a (no bar when a = Len(data)), stop
\* and target at 1 and 3
BacktestSignal(a, type) ==
    EntrySignal([time |-> TimeOf(a), close |-> 2], type, 3, <<"FVG Tap">>,
                (IF type = "LONG" THEN 1 ELSE 3) * PriceScale,
                (IF type = "LONG" THEN 3 ELSE 1) * PriceScale, "5m", "NONE")

InitBacktest ==
    /\ pc = "start"
    /\ swingLength = 1 /\ timeframe = "5m"
    /\ \E n \in 1..MaxBarsB : \E f \in [1..n -> BacktestPairs] :
       \E k \in BacktestCounts : \E s \in [1..k -> (0..n) \X {"LONG", "SHORT"}] :
          /\ data = BarsOfHL(f, n)
          /\ signals = [j \in 1..k |-> BacktestSignal(s[j][1], s[j][2])]
    /\ points = <<>> /\ fvgs = <<>> /\ fvgResult = <<>>
    /\ obs = <<>> /\ obI = 0 /\ obK = 0 /\ obResult = <<>>
    /\ lastSignalTime = 0
    /\ stats = NoStats /\ results = <<>>
    /\ AppIdle

\* lines 840-842: performBacktest on the bars and the signals
RunBacktest ==
    /\ pc = "start"
    /\ \E bt \in {performBacktest(data, signals)} :
          /\ stats' = bt.stats
          /\ results' = bt.results
    /\ pc' = "done"
    /\ UNCHANGED <<data, swingLength, points, fvgs, fvgResult, obs, obI, obK, obResult,
                   timeframe, signals, lastSignalTime, appVars>>

NextBacktest == RunBacktest

SpecBacktest == InitBacktest /\ [][NextBacktest]_vars

\* the largest of the first p entries of a curve
RECURSIVE PeakUpTo(_, _)
PeakUpTo(curve, p) == IF p = 1 THEN curve[1] ELSE Max2(PeakUpTo(curve, p - 1), curve[p])

\* the largest fall of a curve below its running peak
WorstFall(curve) == SetMax({PeakUpTo(curve, p) - curve[p] : p \in 1..Len(curve)})

\* C21: maxDrawdown is the largest, over every position of the equity curve
\* (which starts at 100000), of the highest balance seen up to that position
\* less the balance there.
C21_DrawdownOverCurve ==
    pc = "done" => stats.maxDrawdown = WorstFall(stats.equityCurve)

\* the fields a signal had before the backtest
SameFields(before, after) == \A f \in DOMAIN before : after[f] = before[f]

\* C27: after performBacktest, totalTrades = wins + losses, netPnL = 2000 * wins
\* - 1000 * losses, the last equityCurve entry is 100000 + netPnL, consecutive
\* entries differ by +2000, -1000 or 0, maxDrawdown >= 0, and every returned
\* signal whose anchor bar exists carries backtestResult WIN, LOSS or PENDING
\* with backtestPnL +2000, -1000 or 0 and its other fields unchanged.
C27_BacktestTotals ==
    pc = "done" =>
        LET curve == stats.equityCurve
        IN  /\ stats.totalTrades = stats.wins + stats.losses
            /\ stats.netPnL = 2000 * stats.wins - 1000 * stats.losses
            /\ curve[Len(curve)] = 100000 + stats.netPnL
            /\ \A p \in 1..(Len(curve) - 1) : curve[p + 1] - curve[p] \in {2000, -1000, 0}
            /\ stats.maxDrawdown >= 0
            /\ Len(results) = Len(signals)
            /\ \A k \in 1..Len(signals) :
                  (\E i \in 1..Len(data) : data[i].time = signals[k].time) =>
                      /\ DOMAIN results[k] = DOMAIN signals[k] \cup {"backtestResult", "backtestPnL"}
                      /\ SameFields(signals[k], results[k])
                      /\ \/ results[k].backtestResult = "WIN" /\ results[k].backtestPnL = 2000
                         \/ results[k].backtestResult = "LOSS" /\ results[k].backtestPnL = -1000
                         \/ results[k].backtestResult = "PENDING" /\ results[k].backtestPnL = 0

\* a win, a loss and a signal anchored on no bar, in one list
C27_Witness ==
    /\ pc = "done"
    /\ stats.wins >= 1 /\ stats.losses >= 1
    /\ \E k \in 1..Len(results) : "backtestResult" \notin DOMAIN results[k]

\* C23: order blocks are detected only for the timeframes 5m, 15m and 1h; for
\* any other timeframe the zone set is empty, no signal carries a 'Retest ...
\* OB/Breaker' confluence and every emitted signal touches a gap (of its own
\* direction).
C23_ZonesOnlyOnAllowedTimeframes ==
    (pc = "done" /\ timeframe \notin {"5m", "15m", "1h"}) =>
        /\ obResult = <<>>
        /\ \A k \in 1..Len(signals) :
              /\ TagsAmong(signals[k].confluences, ZoneTags) = <<>>
              /\ LET bar == At(data, SignalIndex(k))
                 IN  IF signals[k].type = "LONG"
                     THEN GapsHolding("Bullish", bar.low, bar.time) # {}
                     ELSE GapsHolding("Bearish", bar.high, bar.time) # {}

\* a 1m run over a series whose bars would leave a zone that holds the bar of
\* an emitted signal
C23_Witness ==
    /\ pc = "done" /\ timeframe = "1m" /\ obResult = <<>>
    /\ \E k \in 1..Len(signals) :
          LET bar == At(data, SignalIndex(k))
              zones == detectOrderBlocks(data, obThresholdTenths)
          IN  \E n \in 1..Len(zones) :
                 /\ ~zones[n].mitigated /\ zones[n].time < bar.time
                 /\ \/ /\ zones[n].direction = "Bullish"
                       /\ zones[n].priceLow <= bar.low /\ bar.low <= zones[n].priceHigh
                    \/ /\ zones[n].direction = "Bearish"
                       /\ zones[n].priceLow <= bar.high /\ bar.high <= zones[n].priceHigh

\* C24: the score of every emitted signal lies in 0..10.
C24_ScoreWithinTen ==
    pc = "done" => \A k \in 1..Len(signals) : signals[k].score \in 0..10

(***************************************************************************)
(* dailyStats: the rollup of the backtested signals by calendar date.      *)
(* toLocaleDateString() writes the date in the format of the browser's     *)
(* locale and new Date(string) reads it back as month/day/year; the model  *)
(* keeps the time zone at UTC and the year at 1970.                        *)
(***************************************************************************)
\* most trades of one day among the entries
MaxDayTrades == 11

SecondsPerDay == 86400

\* the days of 1970 the entries come from, counted from 1 January: 1 and 2
\* January, 1 and 2 February, 1 March
DailyDays == {0, 1, 31, 32, 59}

\* how many trades a day has
DayCounts == {0, 1, MaxDayTrades}

\* the results of the trades of a day, by their position in the day
ResultOf(pattern, j) ==
    CASE pattern = "win"     -> "WIN"
      [] pattern = "loss"    -> "LOSS"
      [] pattern = "mixed"   -> IF j % 2 = 1 THEN "WIN" ELSE "LOSS"
      [] pattern = "pending" -> IF j % 3 = 0 THEN "PENDING" ELSE IF j % 3 = 1 THEN "WIN" ELSE "LOSS"

DailyPatterns == {"win", "loss", "mixed", "pending"}

\* the browser's locale: month/day/year or day/month/year
Locales == {"en-US", "en-GB"}

\* the j-th trade of a day, as performBacktest returns it
DailyEntry(day, j, result) ==
    [time |-> day * SecondsPerDay + j * BarInterval, type |-> "LONG", price |-> 2,
     backtestResult |-> result, backtestPnL |-> pnlOf(result)]

\* the entries of the days from `day` on, in the order of their times
RECURSIVE EntriesFromDay(_, _, _)
EntriesFromDay(day, count, pattern) ==
    IF day > SetMax(DailyDays) THEN <<>>
    ELSE (IF day \in DailyDays
          THEN [j \in 1..count[day] |-> DailyEntry(day, j, ResultOf(pattern, j))]
          ELSE <<>>)
         \o EntriesFromDay(day + 1, count, pattern)

\* the days of the months of 1970
MonthDays == <<31, 28, 31, 30, 31, 30, 31, 31, 30, 31, 30, 31>>

\* the days of 1970 before the first of the month
RECURSIVE DaysBefore(_)
DaysBefore(month) == IF month = 1 THEN 0 ELSE DaysBefore(month - 1) + MonthDays[month - 1]

\* the month a day of 1970 lies in
MonthOfDay(day) == CHOOSE m \in 1..12 : DaysBefore(m) <= day /\ day < DaysBefore(m) + MonthDays[m]

\* new Date(time * 1000).toLocaleDateString(): the numbers of the date string,
\* in the order the locale writes them
toLocaleDateString(time, locale) ==
    LET day == time \div SecondsPerDay
        month == MonthOfDay(day)
        dayOfMonth == day - DaysBefore(month) + 1
    IN  IF locale = "en-US" THEN <<month, dayOfMonth, 1970>> ELSE <<dayOfMonth, month, 1970>>

\* new Date(date) accepts month/day/year with a month of 1..12 and a day of 1..31
IsValidDate(date) == date[1] \in 1..12 /\ date[2] \in 1..31

\* new Date(date).getTime() of a valid date, in seconds
getTime(date) == (DaysBefore(date[1]) + date[2] - 1) * SecondsPerDay

\* entries.filter(e => e.backtestResult === 'WIN' || e.backtestResult === 'LOSS')
validEntries(entries) ==
    SelectSeq(entries, LAMBDA e : "backtestResult" \in DOMAIN e /\ e.backtestResult \in {"WIN", "LOSS"})

\* Object.keys(groups): the dates in the order of their first entry
RECURSIVE groupKeys(_, _, _)
groupKeys(valid, n, locale) ==
    IF n = 0 THEN <<>>
    ELSE LET keys == groupKeys(valid, n - 1, locale)
             date == toLocaleDateString(valid[n].time, locale)
         IN  IF \E k \in 1..Len(keys) : keys[k] = date THEN keys ELSE Append(keys, date)

\* groups[date]
groupOf(valid, date, locale) ==
    SelectSeq(valid, LAMBDA e : toLocaleDateString(e.time, locale) = date)

\* (a, b) => new Date(b).getTime() - new Date(a).getTime() is negative; a
\* difference with an invalid date is NaN, which sort takes for 0
dateBefore(a, b) == IsValidDate(a) /\ IsValidDate(b) /\ getTime(b) - getTime(a) < 0

\* .slice(0, n)
slice(s, n) == SubSeq(s, 1, Min2(n, Len(s)))

\* sortedDates
sortedDates(valid, locale) ==
    slice(SortSeq(groupKeys(valid, Len(valid), locale), dateBefore), 3)

RISK_PER_TRADE == 1000

\* the number of trades with the result among the dailyTrades
CountResult(trades, result) == Cardinality({k \in 1..Len(trades) : trades[k].backtestResult = result})

\* the callback of sortedDates.map
dayStats(valid, date, locale) ==
    LET dailyTrades == slice(SortSeq(groupOf(valid, date, locale),
                                     LAMBDA a, b : b.time - a.time < 0), 10)
        wins == CountResult(dailyTrades, "WIN")
        others == Len(dailyTrades) - wins
        totalGain == wins * (RISK_PER_TRADE * 2)
        totalLoss == others * RISK_PER_TRADE
    IN  [date |-> date, totalGain |-> totalGain, totalLoss |-> totalLoss,
         netPnL |-> totalGain - totalLoss, tradeCount |-> Len(dailyTrades),
         trades |-> dailyTrades]

\* the useMemo of dailyStats
dailyStatsOf(entries, locale) ==
    LET valid == validEntries(entries)
        dates == sortedDates(valid, locale)
    IN  [k \in 1..Len(dates) |-> dayStats(valid, dates[k], locale)]

InitDaily ==
    /\ pc = "start"
    /\ swingLength = 1 /\ timeframe = "5m" /\ data = <<>>
    /\ \E count \in [DailyDays -> DayCounts] : \E pattern \in DailyPatterns :
          results = EntriesFromDay(0, count, pattern)
    /\ points = <<>> /\ fvgs = <<>> /\ fvgResult = <<>>
    /\ obs = <<>> /\ obI = 0 /\ obK = 0 /\ obResult = <<>>
    /\ signals = <<>> /\ lastSignalTime = 0 /\ stats = NoStats
    /\ AppIdle

\* lines 864-898, in a browser of either locale
ComputeDaily ==
    /\ pc = "start"
    /\ \E locale \in Locales : dailyStats' = dailyStatsOf(results, locale)
    /\ pc' = "done"
    /\ UNCHANGED <<data, swingLength, points, fvgs, fvgResult, obs, obI, obK, obResult,
                   entryVars, htfObs, htfFvgs, alert, runs, balance, position, tradeHistory>>

NextDaily == ComputeDaily

SpecDaily == InitDaily /\ [][NextDaily]_vars

\* the calendar day of an entry
DayOf(e) == e.time \div SecondsPerDay

\* the Win and Loss entries of the state
Settled == {k \in 1..Len(results) : results[k].backtestResult \in {"WIN", "LOSS"}}

SettledDays == {DayOf(results[k]) : k \in Settled}

\* the days with fewer than n later days among S
LatestOf(S, n) == {d \in S : Cardinality({x \in S : x > d}) < n}

\* the positions in results of the settled entries of a day, the n latest
LatestTradesOf(day, n) ==
    LET ofDay == {k \in Settled : DayOf(results[k]) = day}
    IN  {k \in ofDay : Cardinality({x \in ofDay : results[x].time > results[k].time}) < n}

\* C22: the daily rollup uses only Win and Loss signals; it keeps at most 3
\* dates, the most recent ones in descending order, and per date at most 10
\* trades, the 10 latest; tradeCount <= 10, totalGain = 2000 * wins and
\* totalLoss = 1000 * losses among the kept trades, netPnL = totalGain -
\* totalLoss.
C22_DailyRollup ==
    pc = "done" =>
        /\ Len(dailyStats) = Cardinality(LatestOf(SettledDays, 3))
        /\ \A k \in 1..Len(dailyStats) :
              LET r == dailyStats[k]
                  day == CHOOSE d \in LatestOf(SettledDays, 3) :
                            Cardinality({x \in SettledDays : x > d}) = k - 1
                  kept == LatestTradesOf(day, 10)
              IN  /\ {r.trades[j] : j \in 1..Len(r.trades)} = {results[x] : x \in kept}
                  /\ \A j \in 1..(Len(r.trades) - 1) : r.trades[j].time > r.trades[j + 1].time
                  /\ r.tradeCount = Len(r.trades) /\ r.tradeCount <= 10
                  /\ r.totalGain = 2000 * CountResult(r.trades, "WIN")
                  /\ r.totalLoss = 1000 * CountResult(r.trades, "LOSS")
                  /\ r.netPnL = r.totalGain - r.totalLoss

(***************************************************************************)
(* fetchData: each call waits for the bars of the timeframe it was started *)
(* on, then for the bars of the higher timeframe, then runs the pipeline   *)
(* and publishes.  Calls are started by the polling effect (on mount, on a *)
(* change of timeframe, every minute) and by the reload button; nothing    *)
(* ends a call that is waiting.  autoTrade is as constructed (false).      *)
(***************************************************************************)
\* most calls of fetchData in one behaviour
MaxRuns == 2

\* the timeframes the user switches between
FetchTimeframes == {"5m", "15m"}

getHtf(tf) ==
    IF tf \in {"1m", "3m", "5m"} THEN "1h"
    ELSE IF tf \in {"15m", "30m"} THEN "4h"
    ELSE "1d"

\* the closes of the bars the API holds for a timeframe
ServerCloses(tf) ==
    CASE tf = "5m"  -> <<1, 1, 3, 4, 4>>
      [] tf = "15m" -> <<4, 4, 2, 1, 1>>
      [] tf = "1h"  -> <<2, 2, 4, 5, 5>>
      [] tf = "4h"  -> <<5, 5, 3, 2, 2>>

\* raw.map(...): the bars of a response that is an array, without or with the
\* bar of the latest minute
ServerBars(tf, extra) ==
    LET base == ServerCloses(tf)
        cl == base \o (IF extra THEN <<base[Len(base)]>> ELSE <<>>)
    IN  Retime(BarsOfCloses(cl, Len(cl), 0), 0, tfSeconds(tf))

\* what a fetch ends in: an array, a body that is not an array, a rejection
Responses == {"array", "notArray", "failure"}

\* a call of fetchData that waits for the bars of its timeframe
NewRun(tf) == [timeframe |-> tf, stage |-> "current", got |-> "pending", gotHtf |-> "pending",
               candles |-> <<>>]

\* setAlert({ msg: "Failed to fetch data", type: 'error' })
FetchFailed == [msg |-> "Failed to fetch data", type |-> "error"]

InitFetch ==
    /\ pc = "mounted"
    /\ swingLength = 1 /\ timeframe = "15m"
    /\ data = <<>> /\ points = <<>> /\ fvgs = <<>> /\ fvgResult = <<>>
    /\ obs = <<>> /\ obI = 0 /\ obK = 0 /\ obResult = <<>>
    /\ signals = <<>> /\ lastSignalTime = 0
    /\ stats = NoStats /\ results = <<>>
    /\ dailyStats = <<>> /\ htfObs = <<>> /\ htfFvgs = <<>> /\ alert = <<>>
    /\ runs = <<NewRun("15m")>>
    /\ balance = StartBalance /\ position = null /\ tradeHistory = <<>>

published == <<data, points, obResult, fvgResult, signals, lastSignalTime, stats, results,
               htfObs, htfFvgs>>

\* setInterval(fetchData, 60000), or the reload button
Poll ==
    /\ Len(runs) < MaxRuns
    /\ runs' = Append(runs, NewRun(timeframe))
    /\ UNCHANGED <<pc, swingLength, fvgs, obs, obI, obK, timeframe, published, dailyStats, alert,
                   balance, position, tradeHistory>>

\* setTimeframe(tf), and the effect that calls fetchData on the new timeframe
SelectTimeframe ==
    /\ Len(runs) < MaxRuns
    /\ \E tf \in FetchTimeframes \ {timeframe} :
          /\ timeframe' = tf
          /\ runs' = Append(runs, NewRun(tf))
    /\ UNCHANGED <<pc, swingLength, fvgs, obs, obI, obK, published, dailyStats, alert,
                   balance, position, tradeHistory>>

\* lines 810-813: the first fetch of a call ends; a rejection or a body that is
\* not an array goes to the catch of line 854
CurrentArrives ==
    \E r \in 1..Len(runs) : \E got \in Responses : \E extra \in BOOLEAN :
        /\ runs[r].stage = "current"
        /\ got # "array" => ~extra
        /\ IF got = "array"
           THEN /\ runs' = [runs EXCEPT ![r].stage = "htf", ![r].got = got,
                                        ![r].candles = ServerBars(runs[r].timeframe, extra)]
                /\ alert' = alert
           ELSE /\ runs' = [runs EXCEPT ![r].stage = "failed", ![r].got = got]
                /\ alert' = Append(alert, FetchFailed)
        /\ UNCHANGED <<pc, swingLength, fvgs, obs, obI, obK, timeframe, published, dailyStats,
                       balance, position, tradeHistory>>

\* lines 817-844: the second fetch of a call ends; a rejection goes to the catch,
\* a body that is not an array stands for no bars, and the pipeline runs and
\* publishes
HtfArrives ==
    \E r \in 1..Len(runs) : \E got \in Responses :
        /\ runs[r].stage = "htf"
        /\ IF got = "failure"
           THEN /\ runs' = [runs EXCEPT ![r].stage = "failed", ![r].gotHtf = got]
                /\ alert' = Append(alert, FetchFailed)
                /\ UNCHANGED published
           ELSE \E candles \in {runs[r].candles} :
                \E candlesHtf \in {IF got = "array" THEN ServerBars(getHtf(runs[r].timeframe), FALSE)
                                   ELSE <<>>} :
                   /\ runs' = [runs EXCEPT ![r].stage = "done", ![r].gotHtf = got]
                   /\ alert' = alert
                   /\ data' = candles
                   /\ points' = detectStructure(candles, swingLength)
                   /\ obResult' = IF runs[r].timeframe \in allowedObTimeframes
                                  THEN detectOrderBlocks(candles, obThresholdTenths) ELSE <<>>
                   /\ fvgResult' = detectFVG(candles)
                   /\ htfObs' = detectOrderBlocks(candlesHtf, obThresholdTenths)
                   /\ htfFvgs' = detectFVG(candlesHtf)
                   /\ \E run \in {detectEntries(candles, obResult', fvgResult', runs[r].timeframe)} :
                         /\ signals' = run.signals
                         /\ lastSignalTime' = run.lastSignalTime
                   /\ \E bt \in {performBacktest(candles, signals')} :
                         /\ stats' = bt.stats
                         /\ results' = bt.results
        /\ UNCHANGED <<pc, swingLength, fvgs, obs, obI, obK, timeframe, dailyStats,
                       balance, position, tradeHistory>>

NextFetch == Poll \/ SelectTimeframe \/ CurrentArrives \/ HtfArrives

SpecFetch == InitFetch /\ [][NextFetch]_vars

\* the call r ends on a response that is not an array or on a failed fetch
EndsOnBadResponse(r) ==
    /\ runs[r].stage \in {"current", "htf"}
    /\ runs'[r].stage \notin {"current", "htf"}
    /\ \/ runs'[r].got \in {"notArray", "failure"}
       \/ runs'[r].gotHtf \in {"notArray", "failure"}

\* C25: when the response for the current-timeframe series or for the
\* higher-timeframe series is not a sequence, or a fetch fails, the run is a
\* fetch failure: the pipeline is skipped, none of the published sets is
\* replaced and one failure notification is raised.
C25_BadResponseIsFailure ==
    [][\A r \in 1..Len(runs) :
          EndsOnBadResponse(r) =>
              /\ UNCHANGED published
              /\ alert' = Append(alert, FetchFailed)]_vars

\* every call has ended
AllEnded == \A r \in 1..Len(runs) : runs[r].stage \in {"done", "failed"}

\* C26: when two runs overlap, the result set displayed after both have
\* completed is the one computed by the run started last, whatever order the
\* responses arrive in.
C26_LastStartedWins ==
    (Len(runs) >= 2 /\ AllEnded /\ runs[Len(runs)].stage = "done") =>
        data = runs[Len(runs)].candles

(***************************************************************************)
(* Paper trading: enterTrade, closeTrade and the effect that watches the   *)
(* latest close.  The effect runs after the render that follows a change   *)
(* of data or position, with the position and the closeTrade of that       *)
(* render; the updates closeTrade queues are applied one after the other.  *)
(* Prices are in hundredths, so that close * 0.99 is exact.                *)
(***************************************************************************)
\* most positions opened in one behaviour
MaxTrades == 2

\* most price updates in one behaviour
MaxTicks == 3

\* the closes of the latest bar
PaperCloses == {100, 200, 300}

\* parseFloat of an empty input; no price is negative
NaN == -1

\* what the SL and TP inputs hold: nothing, or a price
PaperInputs == PaperCloses \cup {NaN}

\* data[data.length - 1].close
LastClose(d) == d[Len(d)].close

\* a >= b and a <= b of numbers either of which may be NaN
gte(a, b) == a # NaN /\ b # NaN /\ a >= b

lte(a, b) == a # NaN /\ b # NaN /\ a <= b

\* the state the queued updates of a handler or effect leave
PaperState(p, b, h) == [position |-> p, balance |-> b, tradeHistory |-> h]

\* closeTrade of the render that showed `shown`, on the updates queued so far
closeTrade(st, shown, pnl) ==
    IF shown = null THEN st
    ELSE PaperState(null, st.balance + pnl,
                    <<[shown EXCEPT !.result = IF pnl > 0 THEN "WIN" ELSE "LOSS"]
                      @@ [pnl |-> pnl]>> \o st.tradeHistory)

\* the effect on [data, position] (line 861)
positionEffect(st, d) ==
    LET shown == st.position
    IN  IF shown = null \/ Len(d) = 0 THEN st
        ELSE LET currentPrice == LastClose(d)
                 pnl == IF shown.type = "LONG" THEN currentPrice - shown.price
                        ELSE shown.price - currentPrice
                 atTarget == IF shown.type = "LONG" THEN gte(currentPrice, shown.takeProfit)
                             ELSE lte(currentPrice, shown.takeProfit)
                 atStop == lte(currentPrice, shown.stopLoss)
                 first == IF atTarget THEN closeTrade(st, shown, pnl) ELSE st
             IN  IF atStop THEN closeTrade(first, shown, pnl) ELSE first

\* the positions opened so far; Date.now() of a new one is the next number
Opened ==
    Cardinality({tradeHistory[k].time : k \in 1..Len(tradeHistory)})
    + (IF position # null THEN 1 ELSE 0)

\* enterTrade (line 859)
enterTrade(now, type, price, sl, tp) ==
    [time |-> now, type |-> type, price |-> price, stopLoss |-> sl, takeProfit |-> tp,
     result |-> "OPEN", confluences |-> <<>>, score |-> 0]

\* parseFloat(slInput) || data[data.length-1].close * 0.99 (or * 1.01)
stopOr(slInput, close, type) ==
    IF slInput # NaN /\ slInput # 0 THEN slInput
    ELSE IF type = "LONG" THEN (close * 99) \div 100 ELSE (close * 101) \div 100

InitPaper ==
    /\ pc = "paper"
    /\ swingLength = 1 /\ timeframe = "15m"
    /\ \E c \in PaperCloses : data = <<CandleData(0, c, c, c, c)>>
    /\ points = <<>> /\ fvgs = <<>> /\ fvgResult = <<>>
    /\ obs = <<>> /\ obI = 0 /\ obK = 0 /\ obResult = <<>>
    /\ signals = <<>> /\ lastSignalTime = 0
    /\ stats = NoStats /\ results = <<>>
    /\ AppIdle

paperFixed == <<swingLength, pc, points, fvgs, fvgResult, obs, obI, obK, obResult, entryVars,
                dailyStats, htfObs, htfFvgs, alert, runs>>

\* the BUY / LONG and SELL / SHORT buttons (lines 984-985), and the effect
EnterTrade ==
    /\ position = null /\ Opened < MaxTrades
    /\ \E type \in {"LONG", "SHORT"} : \E slInput \in PaperInputs : \E tpInput \in PaperInputs :
       \E st \in {positionEffect(
                     PaperState(enterTrade(Opened + 1, type, LastClose(data),
                                           stopOr(slInput, LastClose(data), type), tpInput),
                                balance, tradeHistory), data)} :
          /\ position' = st.position
          /\ balance' = st.balance
          /\ tradeHistory' = st.tradeHistory
    /\ UNCHANGED <<data, paperFixed>>

\* setData with a new latest bar (line 821), and the effect
PriceUpdate ==
    /\ data[1].time < MaxTicks * BarInterval
    /\ \E c \in PaperCloses :
       \E d \in {<<CandleData(data[1].time \div BarInterval + 1, c, c, c, c)>>} :
       \E st \in {positionEffect(PaperState(position, balance, tradeHistory), d)} :
          /\ data' = d
          /\ position' = st.position
          /\ balance' = st.balance
          /\ tradeHistory' = st.tradeHistory
    /\ UNCHANGED paperFixed

\* the CLOSE POSITION button (line 975), shown while a position is open
ManualClose ==
    /\ position # null
    /\ \E st \in {closeTrade(PaperState(position, balance, tradeHistory), position, 0)} :
          /\ position' = st.position
          /\ balance' = st.balance
          /\ tradeHistory' = st.tradeHistory
    /\ UNCHANGED <<data, paperFixed>>

NextPaper == EnterTrade \/ PriceUpdate \/ ManualClose

SpecPaper == InitPaper /\ [][NextPaper]_vars

\* the sum of the pnl of the history entries from position k on, one entry per
\* opened position
RECURSIVE PnLOnce(_)
PnLOnce(k) ==
    IF k > Len(tradeHistory) THEN 0
    ELSE (IF \E j \in 1..(k - 1) : tradeHistory[j].time = tradeHistory[k].time
          THEN 0 ELSE tradeHistory[k].pnl)
         + PnLOnce(k + 1)

\* C29: a paper position is closed at most once: whichever take-profit and
\* stop-loss conditions hold, an opened position adds exactly one entry to the
\* trade history and the balance is adjusted by its pnl exactly once.
C29_ClosedAtMostOnce ==
    /\ \A j, k \in 1..Len(tradeHistory) : tradeHistory[j].time = tradeHistory[k].time => j = k
    /\ balance = StartBalance + PnLOnce(1)

\* a SHORT position, open or in the history, with takeProfit < entry < stopLoss
WellFormedShort(p) ==
    /\ p # null /\ p.type = "SHORT"
    /\ p.takeProfit # NaN /\ p.takeProfit < p.price /\ p.price < p.stopLoss

\* the step puts a position into the history without the CLOSE POSITION button:
\* the effect closed it, right after it was opened or on a new latest close
ClosedByEffect ==
    /\ Len(tradeHistory') > Len(tradeHistory)
    /\ position = null \/ data' # data

\* C30: an open SHORT position with takeProfit < entry < stopLoss stays open
\* while the latest close lies strictly between its takeProfit and its
\* stopLoss, and is stopped out when the latest close is at or above its
\* stopLoss.
C30_ShortStopAbove ==
    [][/\ (ClosedByEffect /\ WellFormedShort(tradeHistory'[1])) =>
             \/ LastClose(data') <= tradeHistory'[1].takeProfit
             \/ LastClose(data') >= tradeHistory'[1].stopLoss
       /\ (WellFormedShort(position) /\ data' # data /\ LastClose(data') >= position.stopLoss)
             => position' = null]_vars

(***************************************************************************)
(* The stop and the target of a signal in floating point (lines 338-341    *)
(* and 352-355).  The code's numbers are binary floating-point numbers and *)
(* every operation rounds its exact result to the nearest one, ties to the *)
(* even significand.  A number is kept here as m * 2^e with a significand  *)
(* m of MantissaBits bits (53 in the code, fewer here to stay inside the   *)
(* integers of the checker); exponents are not limited.                    *)
(***************************************************************************)
\* bits of a significand
MantissaBits == 12

RECURSIVE Pow2(_)
Pow2(n) == IF n = 0 THEN 1 ELSE 2 * Pow2(n - 1)

\* the number of bits of n > 0
RECURSIVE BitLength(_)
BitLength(n) == IF n = 0 THEN 0 ELSE 1 + BitLength(n \div 2)

\* the floating-point number nearest to n * 2^e, n >= 0
RoundTo(n, e) ==
    IF n = 0 THEN [m |-> 0, e |-> 0]
    ELSE LET shift == BitLength(n) - MantissaBits
         IN  IF shift <= 0 THEN [m |-> n * Pow2(-shift), e |-> e + shift]
             ELSE LET q == n \div Pow2(shift)
                      r == n % Pow2(shift)
                      half == Pow2(shift - 1)
                      up == r > half \/ (r = half /\ q % 2 = 1)
                      m1 == IF up THEN q + 1 ELSE q
                  IN  IF m1 = Pow2(MantissaBits)
                      THEN [m |-> Pow2(MantissaBits - 1), e |-> e + shift + 1]
                      ELSE [m |-> m1, e |-> e + shift]

\* the two numbers as integers over their smaller exponent
Aligned(a, b) ==
    LET e0 == IF a.m = 0 THEN b.e ELSE IF b.m = 0 THEN a.e ELSE Min2(a.e, b.e)
    IN  [a |-> IF a.m = 0 THEN 0 ELSE a.m * Pow2(a.e - e0),
         b |-> IF b.m = 0 THEN 0 ELSE b.m * Pow2(b.e - e0), e |-> e0]

\* a * b
fmul(a, b) == RoundTo(a.m * b.m, a.e + b.e)

\* a + b
fadd(a, b) == LET x == Aligned(a, b) IN RoundTo(x.a + x.b, x.e)

\* a - b, for a >= b
fsub(a, b) == LET x == Aligned(a, b) IN RoundTo(x.a - x.b, x.e)

\* a < b
flt(a, b) == LET x == Aligned(a, b) IN x.a < x.b

\* the literal 0.0005: the number nearest to 1/2000, which lies between 2^-11
\* and 2^-10
Buffer ==
    [m |-> (2 * Pow2(MantissaBits + 10) + 2000) \div (2 * 2000), e |-> -(MantissaBits + 10)]

FloatOne == RoundTo(1, 0)

\* the literal 2
FloatTwo == RoundTo(2, 0)

\* sl, risk and tp of a LONG from the lowest low (and zone bound) and the close
longLevels(swingLow, close) ==
    LET sl == fsub(swingLow, fmul(close, Buffer))
        risk == fsub(close, sl)
        tp == fadd(close, fmul(risk, FloatTwo))
    IN  [type |-> "LONG", price |-> close, sl |-> sl, tp |-> tp]

\* sl, risk and tp of a SHORT from the highest high (and zone bound) and the close
shortLevels(swingHigh, close) ==
    LET sl == fadd(swingHigh, fmul(close, Buffer))
        risk == fsub(sl, close)
        tp == fsub(close, fmul(risk, FloatTwo))
    IN  [type |-> "SHORT", price |-> close, sl |-> sl, tp |-> tp]

\* distance of the low below the close and of the high above it, in units of
\* the last place of the close
StopGaps == 0..2

\* a bar with prices from 1024 up to 2048: its close has the significand m and
\* its low and high lie gl and gh last places from it
StopBar(m, gl, gh) ==
    LET e == 11 - MantissaBits
        close == RoundTo(m, e)
    IN  [time |-> 0, open |-> close, high |-> RoundTo(m + gh, e), low |-> RoundTo(m - gl, e),
         close |-> close]

InitStops ==
    /\ pc = "start"
    /\ swingLength = 1 /\ timeframe = "15m"
    /\ \E m \in Pow2(MantissaBits - 1)..(Pow2(MantissaBits) - 1) :
       \E gl \in StopGaps : \E gh \in StopGaps :
          data = <<StopBar(m, gl, gh)>>
    /\ points = <<>> /\ fvgs = <<>> /\ fvgResult = <<>>
    /\ obs = <<>> /\ obI = 0 /\ obK = 0 /\ obResult = <<>>
    /\ signals = <<>> /\ lastSignalTime = 0
    /\ stats = NoStats /\ results = <<>>
    /\ AppIdle

\* lines 338-341 and 352-355 on a bar that passed the gate, in either branch
ComputeStops ==
    /\ pc = "start"
    /\ \/ signals' = <<longLevels(data[1].low, data[1].close)>>
       \/ signals' = <<shortLevels(data[1].high, data[1].close)>>
    /\ pc' = "done"
    /\ UNCHANGED <<data, swingLength, points, fvgs, fvgResult, obs, obI, obK, obResult,
                   timeframe, lastSignalTime, stats, results, appVars>>

NextStops == ComputeStops

SpecStops == InitStops /\ [][NextStops]_vars

\* |a - b| of two numbers, exactly, as an integer over the exponent e
Distance(a, b) == LET x == Aligned(a, b) IN [n |-> Abs(x.a - x.b), e |-> x.e]

\* x = 2 * y for two exact distances
IsTwice(x, y) ==
    LET e0 == Min2(x.e, y.e)
    IN  x.n * Pow2(x.e - e0) = 2 * y.n * Pow2(y.e - e0)

\* the stop lies on the losing side of the entry and the target on the other
Ordered(s) ==
    IF s.type = "LONG" THEN flt(s.sl, s.price) /\ flt(s.price, s.tp)
    ELSE flt(s.tp, s.price) /\ flt(s.price, s.sl)

\* C28 as stated: for positive prices with low <= close <= high a Long signal
\* has stopLoss < entry < takeProfit, a Short signal takeProfit < entry <
\* stopLoss, and |takeProfit - entry| = 2 * |entry - stopLoss| in both cases.
C28_TwoToOneExactly ==
    pc = "done" =>
        \A k \in 1..Len(signals) :
            /\ Ordered(signals[k])
            /\ IsTwice(Distance(signals[k].tp, signals[k].price),
                       Distance(signals[k].price, signals[k].sl))

\* x and 2 * y differ by at most n units of the last place of the number t
WithinUlps(x, y, n, t) ==
    LET e0 == Min2(Min2(x.e, y.e), t.e)
    IN  Abs(x.n * Pow2(x.e - e0) - 2 * y.n * Pow2(y.e - e0)) <= n * Pow2(t.e - e0)

\* C28, amended: the order of stop, entry and target holds as stated, and
\* |takeProfit - entry| equals 2 * |entry - stopLoss| up to the rounding of the
\* operations: the two differ by at most 2 units of the last place of the
\* takeProfit.
C28_TwoToOneRounded ==
    pc = "done" =>
        \A k \in 1..Len(signals) :
            /\ Ordered(signals[k])
            /\ WithinUlps(Distance(signals[k].tp, signals[k].price),
                          Distance(signals[k].price, signals[k].sl), 2, signals[k].tp)

\* a Long signal whose target is not exactly twice the risk away from the entry
C28_Witness ==
    /\ pc = "done"
    /\ \E k \in 1..Len(signals) :
          /\ signals[k].type = "LONG"
          /\ Ordered(signals[k])
          /\ ~IsTwice(Distance(signals[k].tp, signals[k].price),
                      Distance(signals[k].price, signals[k].sl))

====
